---------------------------- MODULE Spec2Model ----------------------------
(***************************************************************************)
(* IVF capture repair (vmaf.ts): parseIvf, the recognizer pass with its    *)
(* chunked task pool, the reconciliation of the recognized timestamps,     *)
(* fixIvfFrames and the re-parse of the repaired container by runVmaf.     *)
(*                                                                         *)
(* A container is a 32-byte header followed by frame records; a record is  *)
(* a 12-byte frame header (4-byte size, 8-byte pts) and `size` payload     *)
(* bytes.  The model keeps a record as [pos, size, pts, data]: `pos` is    *)
(* the file offset of its frame header, `data` stands for the opaque       *)
(* payload bytes (two payloads are the same bytes iff they have the same   *)
(* `data`).                                                                *)
(***************************************************************************)
EXTENDS Integers, Sequences, FiniteSets, TLC

\* ------------------------------------------------------------------ bounds
\* Largest number of frame records of a source container.
MaxFrames == 3
\* os.cpus().length: the chunk size of the recognition pool.
NumWorkers == 2

\* ------------------------------------------------------- program constants
HeaderSize == 32
FrameHeaderSize == 12
ConfidenceThreshold == 75
SecondsPerHour == 60 * 60

\* --------------------------------------------------------------- input sets
\* pts values of the frame headers of a source container.
PtsValues == {0, 1, 3}
\* (den, num) pairs of the header: frameRate = den / num.  30/1 is a usual
\* capture; 1/3600 makes one hour of frames a single timestamp, so that the
\* gap bound of fixIvfFrames is within reach of a small container.
FrameRates == {<<30, 1>>, <<1, 3600>>}
\* Timestamp keys the burned-in clock may stand for.
ClockKeys == {1, 3, 4}
\* Texts the identity overlay may be recognized as.
NameTexts == {"Alice", "Bob"}

\* A clock value in ms that converts to key k at frame rate den/num.
ClockMsFor(k, den, num) == (1000 * k * num) \div den

\* What the clock recognition may answer for a frame: data.confidence and
\* parseInt(data.text.trim() || '0').  The whitelist is digits only, so the
\* parsed value is a natural number.
ClockData(den, num) ==
    {[confidence |-> ConfidenceThreshold - 1, time |-> ClockMsFor(1, den, num)],
     [confidence |-> ConfidenceThreshold, time |-> 0],
     [confidence |-> ConfidenceThreshold, time |-> 1]}
    \cup {[confidence |-> ConfidenceThreshold, time |-> ClockMsFor(k, den, num)] :
            k \in ClockKeys}

\* What the identity recognition may answer: data.confidence, data.text.trim().
NameData ==
    {[confidence |-> ConfidenceThreshold, text |-> "Alice"],
     [confidence |-> ConfidenceThreshold + 1, text |-> ""]}
    \cup {[confidence |-> ConfidenceThreshold + 1, text |-> t] : t \in NameTexts}

\* ------------------------------------------------------------ JS Map helpers
\* A Map is the sequence of its entries [key, val] in insertion order.
MapHas(m, k) == \E j \in 1..Len(m) : m[j].key = k

MapIndex(m, k) == CHOOSE j \in 1..Len(m) : m[j].key = k

MapGet(m, k) == m[MapIndex(m, k)].val

\* Map.set: a new key is appended, an existing key keeps its place and
\* takes the new value.
MapSet(m, k, v) ==
    IF MapHas(m, k)
    THEN [m EXCEPT ![MapIndex(m, k)] = [key |-> k, val |-> v]]
    ELSE Append(m, [key |-> k, val |-> v])

MapKeys(m) == {m[j].key : j \in 1..Len(m)}

\* Array.from(set).sort((a, b) => a - b)
RECURSIVE SortAsc(_)
SortAsc(S) ==
    IF S = {} THEN <<>>
    ELSE LET lo == CHOOSE x \in S : \A y \in S : x <= y
         IN <<lo>> \o SortAsc(S \ {lo})

\* Math.round of the non-negative rational a / b (b > 0): floor(a/b + 1/2).
Round(a, b) == (2 * a + b) \div (2 * b)

\* ------------------------------------------------------------------- files
\* The records of a container whose frame headers carry the pts values
\* `ptss`, laid out back to back from `pos`: record k has k payload bytes,
\* and no two records have the same payload.
RECURSIVE Layout(_, _, _)
Layout(ptss, k, pos) ==
    IF k > Len(ptss) THEN <<>>
    ELSE <<[pos |-> pos, size |-> k, pts |-> ptss[k], data |-> k]>>
         \o Layout(ptss, k + 1, pos + k + FrameHeaderSize)

\* Sequences over S of length at most n.
SeqsUpTo(S, n) == UNION {[1..k -> S] : k \in 0..n}

\* A container with the given rate fields and frame pts values.
Container(den, num, ptss) ==
    [exists |-> TRUE, headerBytes |-> HeaderSize, den |-> den, num |-> num,
     count |-> 0, recs |-> Layout(ptss, 1, HeaderSize), tail |-> 0]

\* The container f cut off inside a frame header: `tail` bytes, fewer than
\* a frame header has, follow its last complete record.
CutOff(f, tail) == [f EXCEPT !.tail = tail]

\* A file that ends inside the container header, after `bytes` bytes.
ShortHeader(bytes) ==
    [exists |-> TRUE, headerBytes |-> bytes, den |-> 0, num |-> 0, count |-> 0,
     recs |-> <<>>, tail |-> 0]

\* The capture of the repair scenario: 30 frames a second, frames at the
\* timestamps 0, 1, 3, 4.
ScenarioFile == Container(30, 1, <<0, 1, 3, 4>>)

\* The source containers: a full header with a frame rate, any frame
\* records; the scenario capture; a container that ends inside a frame
\* header, the first one or a later one; or a file too short to hold the
\* header, the empty file among them.
SourceFiles ==
    {Container(r[1], r[2], p) : r \in FrameRates, p \in SeqsUpTo(PtsValues, MaxFrames)}
    \cup {ScenarioFile}
    \cup {CutOff(Container(30, 1, p), FrameHeaderSize - 1) : p \in {<<>>, <<1>>}}
    \cup {ShortHeader(0), ShortHeader(HeaderSize - 1)}

\* The output path before fs.promises.open(outFilePath, 'w').
NoFile == [exists |-> FALSE, headerBytes |-> 0, den |-> 0, num |-> 0, count |-> 0,
           recs |-> <<>>, tail |-> 0]

\* ------------------------------------------------------------------- state
VARIABLES
    call,                    \* the exported function that was called
    src,                     \* the source container (fpath)
    fixed,                   \* the output container (outFilePath)
    pc,                      \* where the call stands
    fpath,                   \* the file parseIvf is reading: "src" or "fixed"
    position,                \* parseIvf: read position
    index,                   \* parseIvf: running frame counter
    frames,                  \* parseIvf: the catalogue, a Map pts -> IvfFrame
    tasks,                   \* chunkedPromiseAll: state of each recognizeFrame call
    started,                 \* chunkedPromiseAll: number of items handed to f so far
    ptsToRecognized,         \* recognizer: Map pts -> recognized pts, as the tasks fill it
    resolved,                \* the same Map after the reconciliation loop
    participantDisplayName,  \* recognizer: the shared display name
    answer,                  \* recognizer: line 124's data, when the step taken is its answer
    identity,                \* recognizer: line 153's data, when the step taken is its answer
    handles,                 \* the file handles and recognition workers that are open
    info,                    \* the IvfInfo parseIvf returned for the source
    vmafInfo,                \* runVmaf: the IvfInfo of the repaired container
    w,                       \* fixIvfFrames: the locals of the write loop
    ret,                     \* fixIvfFrames: the value it returned
    error                    \* the Error thrown, "" when none

\* calculateVmafScore and runVmaf.
VARIABLES
    config,                  \* vmafPath and vmafKeepIntermediateFiles
    files,                   \* the .ivf paths readdir gave, outside vmaf/
    opc,                     \* where calculateVmafScore stands
    scanned,                 \* number of files the first loop is done with
    reference,               \* Map participantDisplayName -> outFilePath
    degraded,                \* Map participantDisplayName -> list of outFilePath
    disk,                    \* the files under outPath: path -> content
    refIdx,                  \* second loop: position in reference.keys()
    degIdx,                  \* second loop: position in the degraded list
    scoring,                 \* runVmaf: the paths and the -ss value of the command
    report,                  \* the ret object: key -> metrics
    written,                 \* what was written to vmaf.json
    log,                     \* the calls made so far, in order
    oerror                   \* the Error calculateVmafScore rejected with

\* writeGraph.
VARIABLES
    gpc,                     \* where writeGraph stands
    vmafLog,                 \* vmafLog.frames: frameNum and metrics.vmaf
    frameRate,               \* the frameRate argument
    gi,                      \* reduce: number of frames folded in
    prev                     \* reduce: the accumulator

\* chunkedPromiseAll, for any items and any f.
VARIABLES
    ppc,                     \* where chunkedPromiseAll stands
    items,                   \* the items argument
    chunkSize,               \* the chunkSize argument
    poolIndex,               \* the loop variable index
    promises,                \* state of the promise of each item's callback
    results,                 \* the results array
    settledOrder             \* the positions in the order their promises settled

repairVars == <<call, src, fixed, pc, fpath, position, index, frames, tasks, started,
                ptsToRecognized, resolved, participantDisplayName, answer, identity,
                handles, info, vmafInfo, w, ret, error>>

orchVars == <<config, files, opc, scanned, reference, degraded, disk, refIdx,
              degIdx, scoring, report, written, log, oerror>>

graphVars == <<gpc, vmafLog, frameRate, gi, prev>>

poolVars == <<ppc, items, chunkSize, poolIndex, promises, results, settledOrder>>

vars == <<repairVars, orchVars, graphVars, poolVars>>

parseVars == <<position, index, frames>>
recogVars == <<tasks, started, ptsToRecognized, resolved, participantDisplayName,
               answer, identity>>
fixVars == <<fixed, w, ret, vmafInfo>>

NoInfo == [den |-> 0, num |-> 0, ptsIndex |-> <<>>, frames |-> <<>>,
           participantDisplayName |-> ""]

\* The step taken is not the answer of a clock job.
NoAnswer == [j |-> 0, confidence |-> 0, time |-> 0]

\* The step taken is not the answer of an identity job.
NoIdentity == [j |-> 0, confidence |-> 0, text |-> ""]

\* previousFrame = null
NoFrame == [len |-> 0, size |-> 0, pts |-> 0, data |-> 0]

NoLocals == [i |-> 0, position |-> 0, writtenFrames |-> 0, startPts |-> -1,
             previousPts |-> -1, previousFrame |-> NoFrame, duplicatedFrames |-> 0]

NoRet == [participantDisplayName |-> "", startPts |-> -1]

\* No runVmaf call is in flight.
NoScoring == [referencePath |-> <<>>, degradedPath |-> <<>>, ss |-> [n |-> 0, d |-> 0]]

\* calculateVmafScore is not running.
OrchIdle ==
    /\ config = [vmafPath |-> <<>>, vmafKeepIntermediateFiles |-> FALSE]
    /\ files = <<>>
    /\ opc = "idle"
    /\ scanned = 0
    /\ reference = <<>>
    /\ degraded = <<>>
    /\ disk = <<>>
    /\ refIdx = 0
    /\ degIdx = 0
    /\ scoring = NoScoring
    /\ report = <<>>
    /\ written = <<>>
    /\ log = <<>>
    /\ oerror = ""

\* writeGraph is not running.
GraphIdle ==
    /\ gpc = "idle"
    /\ vmafLog = <<>>
    /\ frameRate = 0
    /\ gi = 0
    /\ prev = <<>>

\* chunkedPromiseAll is not running.
PoolIdle ==
    /\ ppc = "idle"
    /\ items = <<>>
    /\ chunkSize = 1
    /\ poolIndex = 0
    /\ promises = <<>>
    /\ results = <<>>
    /\ settledOrder = <<>>

\* The resources the calls open: the file handle of parseIvf (line 48), the
\* scheduler with its clock workers (lines 93-101), the identity worker
\* (line 103), and the two file handles of fixIvfFrames (lines 228, 241).
ParseFd == "parseIvf fd"

ClockPool == "tesseractScheduler"

NameWorker == "participantDisplayNameWorker"

SourceFd == "fixIvfFrames fd"

FixedFd == "fixedFd"

\* Lines 93-107: what parseIvf creates for the recognizer.
Recognizers == {ClockPool, NameWorker}

\* Neither parseIvf nor fixIvfFrames is running.
RepairIdle ==
    /\ call = ""
    /\ src = NoFile
    /\ fixed = NoFile
    /\ pc = "idle"
    /\ fpath = "src"
    /\ position = 0
    /\ index = 0
    /\ frames = <<>>
    /\ tasks = <<>>
    /\ started = 0
    /\ ptsToRecognized = <<>>
    /\ resolved = <<>>
    /\ participantDisplayName = ""
    /\ answer = NoAnswer
    /\ identity = NoIdentity
    /\ handles = {}
    /\ info = NoInfo
    /\ vmafInfo = NoInfo
    /\ w = NoLocals
    /\ ret = NoRet
    /\ error = ""

\* The file behind the path parseIvf was given.
File == IF fpath = "src" THEN src ELSE fixed

\* parseIvf(fpath, runRecognizer): fixIvfFrames passes true, runVmaf false.
runRecognizer == call = "fixIvfFrames" /\ fpath = "src"

Init ==
    /\ call \in {"parseIvf", "fixIvfFrames"}
    /\ src \in SourceFiles
    /\ fixed = NoFile
    /\ pc = "open"
    /\ fpath = "src"
    /\ position = 0
    /\ index = 0
    /\ frames = <<>>
    /\ tasks = <<>>
    /\ started = 0
    /\ ptsToRecognized = <<>>
    /\ resolved = <<>>
    /\ participantDisplayName = ""
    /\ answer = NoAnswer
    /\ identity = NoIdentity
    /\ handles = {}
    /\ info = NoInfo
    /\ vmafInfo = NoInfo
    /\ w = NoLocals
    /\ ret = NoRet
    /\ error = ""
    /\ OrchIdle
    /\ GraphIdle
    /\ PoolIdle

\* ---------------------------------------------------------------- parseIvf
\* InvalidHeader that takes only an empty read as a bad header.
InvalidHeaderEmpty(bytesRead) == bytesRead = 0

\* Line 52: ret.bytesRead !== 32
InvalidHeader(bytesRead) == bytesRead # HeaderSize

\* Lines 48-66: open, read the header, throw when it is short.
ParseOpen ==
    /\ pc = "open"
    /\ IF InvalidHeader(File.headerBytes)
       THEN /\ error' = "Invalid IVF file"
            /\ pc' = "failed"
            /\ UNCHANGED <<parseVars, participantDisplayName>>
       ELSE /\ position' = HeaderSize
            /\ index' = 0
            /\ frames' = <<>>
            /\ participantDisplayName' = ""
            /\ pc' = "frames"
            /\ UNCHANGED error
    /\ handles' = handles \cup {ParseFd}
    /\ UNCHANGED <<orchVars, graphVars, poolVars>>
    /\ UNCHANGED <<call, src, fpath, tasks, started, ptsToRecognized, resolved,
                   answer, identity, info, fixVars>>

\* fd.read of a 12-byte frame header at `pos`: the record that starts there.
HasRecordAt(f, pos) == \E j \in 1..Len(f.recs) : f.recs[j].pos = pos

RecordAt(f, pos) == f.recs[CHOOSE j \in 1..Len(f.recs) : f.recs[j].pos = pos]

\* Lines 68-74: bytesRead of the read of a frame header at `pos`, which is
\* the start of a record or the end of the last one.
BytesRead(f, pos) == IF HasRecordAt(f, pos) THEN FrameHeaderSize ELSE f.tail

\* Catalogue that lets a later frame take the entry of its pts.
CatalogueOverwrite(m, pts, idx, pos, size) ==
    MapSet(m, pts, [index |-> idx, position |-> pos, size |-> size + FrameHeaderSize])

\* Catalogue that records the payload size as the length of the record.
CataloguePayloadSize(m, pts, idx, pos, size) ==
    IF MapHas(m, pts) THEN m
    ELSE MapSet(m, pts, [index |-> idx, position |-> pos, size |-> size])

\* Lines 83-88: the catalogue after one frame header.
Catalogue(m, pts, idx, pos, size) ==
    IF MapHas(m, pts) THEN m
    ELSE MapSet(m, pts, [index |-> idx, position |-> pos,
                         size |-> size + FrameHeaderSize])

\* Lines 67-90, one turn of the loop on a complete frame header.
ReadFrame ==
    /\ pc = "frames"
    /\ BytesRead(File, position) = FrameHeaderSize
    /\ LET rec == RecordAt(File, position)
       IN /\ frames' = Catalogue(frames, rec.pts, index, position, rec.size)
          /\ index' = IF MapHas(frames, rec.pts) THEN index ELSE index + 1
          /\ position' = position + rec.size + FrameHeaderSize
    /\ UNCHANGED handles
    /\ UNCHANGED <<orchVars, graphVars, poolVars>>
    /\ UNCHANGED <<call, src, fpath, pc, recogVars, info, fixVars, error>>

\* PtsIndex that leaves the keys in insertion order.
PtsIndexUnsorted(m) == [j \in 1..Len(m) |-> m[j].key]

\* Line 212: ptsIndex of a catalogue.
PtsIndex(m) == SortAsc(MapKeys(m))

\* What follows a parseIvf that returned: fixIvfFrames goes on with the
\* recovered catalogue, runVmaf and a direct caller are done with it.
AfterParse == IF runRecognizer THEN "check" ELSE "done"

\* Lines 74-76 and 92, 212-215: the short read ends the loop; without the
\* recognizer parseIvf returns, with it the workers are created and
\* chunkedPromiseAll is entered.
EndOfStream ==
    /\ pc = "frames"
    /\ BytesRead(File, position) # FrameHeaderSize
    /\ IF runRecognizer
       THEN /\ pc' = "recognize"
            /\ tasks' = [j \in 1..Len(frames) |-> "pending"]
            /\ started' = 0
            /\ ptsToRecognized' = <<>>
            /\ UNCHANGED <<info, vmafInfo>>
       ELSE /\ pc' = AfterParse
            /\ LET returned == [den |-> File.den, num |-> File.num,
                                ptsIndex |-> PtsIndex(frames), frames |-> frames,
                                participantDisplayName |-> participantDisplayName]
               IN IF fpath = "src"
                  THEN info' = returned /\ UNCHANGED vmafInfo
                  ELSE vmafInfo' = returned /\ UNCHANGED info
            /\ UNCHANGED <<tasks, started, ptsToRecognized>>
    /\ handles' = IF runRecognizer THEN handles \cup Recognizers
                               ELSE handles \ {ParseFd}
    /\ UNCHANGED <<orchVars, graphVars, poolVars>>
    /\ UNCHANGED <<call, src, fpath, parseVars, resolved, participantDisplayName,
                   answer, identity, fixed, w, ret, error>>

\* ------------------------------------------------- the recognizer (92-184)
\* A recognizeFrame call is "pending" before chunkedPromiseAll reaches it,
\* "clock" while it awaits the frame read and the clock job, "name" while it
\* awaits the identity worker; it has settled as "unrecognized" (the return
\* of line 138), "done" (it ran to its end) or "rejected" (it threw).
Settled(st) == st \in {"unrecognized", "done", "rejected"}

\* items = Array.from(frames.keys()): the catalogue keys in insertion order.
Item(j) == frames[j].key

\* StartChunk that maps the next chunk without awaiting the one before.
StartChunkNoAwait ==
    /\ pc = "recognize"
    /\ started < Len(tasks)
    /\ LET last == IF started + NumWorkers < Len(tasks)
                   THEN started + NumWorkers ELSE Len(tasks)
       IN /\ tasks' = [j \in 1..Len(tasks) |->
                         IF j > started /\ j <= last THEN "clock" ELSE tasks[j]]
          /\ started' = last
    /\ answer' = NoAnswer
    /\ identity' = NoIdentity
    /\ UNCHANGED handles
    /\ UNCHANGED <<orchVars, graphVars, poolVars>>
    /\ UNCHANGED <<call, src, fpath, pc, parseVars, ptsToRecognized, resolved,
                   participantDisplayName, info, fixVars, error>>

\* Lines 32-37: the next chunk is mapped over f once the Promise.allSettled
\* of the chunk before it has resolved.  f runs to its first await at once,
\* so every task of the chunk is in flight when the map returns.
StartChunk ==
    /\ pc = "recognize"
    /\ started < Len(tasks)
    /\ \A j \in 1..started : Settled(tasks[j])
    /\ LET last == IF started + NumWorkers < Len(tasks)
                   THEN started + NumWorkers ELSE Len(tasks)
       IN /\ tasks' = [j \in 1..Len(tasks) |->
                         IF j > started /\ j <= last THEN "clock" ELSE tasks[j]]
          /\ started' = last
    /\ answer' = NoAnswer
    /\ identity' = NoIdentity
    /\ UNCHANGED handles
    /\ UNCHANGED <<orchVars, graphVars, poolVars>>
    /\ UNCHANGED <<call, src, fpath, pc, parseVars, ptsToRecognized, resolved,
                   participantDisplayName, info, fixVars, error>>

\* Map.set and Map.delete on ptsToRecognized.  Only its sorted keys are read
\* (line 188), so the Map is kept as a function and not in insertion order.
RecSet(m, k, v) == [x \in DOMAIN m \cup {k} |-> IF x = k THEN v ELSE m[x]]

RecDelete(m, k) == [x \in DOMAIN m \ {k} |-> m[x]]

\* ptsToRecognized.get(k) || 0: undefined and 0 are both falsy.
RecGet(m, k) == IF k \in DOMAIN m THEN m[k] ELSE 0

\* Unrecognized that takes a confidence of exactly the threshold as failed.
UnrecognizedAtThreshold(data) ==
    data.confidence <= ConfidenceThreshold \/ data.time = 0

\* Lines 128-129: the recognition counts as failed.
Unrecognized(data) == data.confidence < ConfidenceThreshold \/ data.time = 0

\* Line 148: Math.round((frameRate * recognizedTime) / 1000)
RecognizedPts(time, den, num) == Round(den * time, num * 1000)

\* Lines 137 and 149: the value recognizeFrame stores for the frame.
StoredPts(data, den, num) ==
    IF Unrecognized(data) THEN 0 ELSE RecognizedPts(data.time, den, num)

\* ClockDone that calls the identity worker without setting the placeholder.
ClockDoneNoPlaceholder(j) ==
    /\ pc = "recognize"
    /\ tasks[j] = "clock"
    /\ \E data \in ClockData(src.den, src.num) :
        /\ answer' = [j |-> j, confidence |-> data.confidence, time |-> data.time]
        /\ ptsToRecognized' =
              RecSet(ptsToRecognized, Item(j), StoredPts(data, src.den, src.num))
        /\ IF Unrecognized(data)
           THEN /\ tasks' = [tasks EXCEPT ![j] = "unrecognized"]
                /\ UNCHANGED participantDisplayName
           ELSE IF participantDisplayName = ""
           THEN /\ tasks' = [tasks EXCEPT ![j] = "name"]
                /\ UNCHANGED participantDisplayName
           ELSE /\ tasks' = [tasks EXCEPT ![j] = "done"]
                /\ UNCHANGED participantDisplayName
    /\ identity' = NoIdentity
    /\ UNCHANGED handles
    /\ UNCHANGED <<orchVars, graphVars, poolVars>>
    /\ UNCHANGED <<call, src, fpath, pc, parseVars, started, resolved, info,
                   fixVars, error>>

\* Lines 124-152: the clock job of task j answers.  A failed recognition
\* stores the sentinel and returns; a good one stores the key and, when no
\* display name is set, sets the placeholder and calls the identity worker.
ClockDone(j) ==
    /\ pc = "recognize"
    /\ tasks[j] = "clock"
    /\ \E data \in ClockData(src.den, src.num) :
        /\ answer' = [j |-> j, confidence |-> data.confidence, time |-> data.time]
        /\ ptsToRecognized' =
              RecSet(ptsToRecognized, Item(j), StoredPts(data, src.den, src.num))
        /\ IF Unrecognized(data)
           THEN /\ tasks' = [tasks EXCEPT ![j] = "unrecognized"]
                /\ UNCHANGED participantDisplayName
           ELSE IF participantDisplayName = ""
           THEN /\ tasks' = [tasks EXCEPT ![j] = "name"]
                /\ participantDisplayName' = "-"
           ELSE /\ tasks' = [tasks EXCEPT ![j] = "done"]
                /\ UNCHANGED participantDisplayName
    /\ identity' = NoIdentity
    /\ UNCHANGED handles
    /\ UNCHANGED <<orchVars, graphVars, poolVars>>
    /\ UNCHANGED <<call, src, fpath, pc, parseVars, started, resolved, info,
                   fixVars, error>>

\* Lines 121 and 124: fd.read or the clock job rejects; the task rejects and
\* Promise.allSettled takes it as settled.
ClockThrow(j) ==
    /\ pc = "recognize"
    /\ tasks[j] = "clock"
    /\ tasks' = [tasks EXCEPT ![j] = "rejected"]
    /\ answer' = NoAnswer
    /\ identity' = NoIdentity
    /\ UNCHANGED handles
    /\ UNCHANGED <<orchVars, graphVars, poolVars>>
    /\ UNCHANGED <<call, src, fpath, pc, parseVars, started, ptsToRecognized,
                   resolved, participantDisplayName, info, fixVars, error>>

\* NameAccepted that takes a confidence of exactly the threshold.
NameAcceptedAtThreshold(data) ==
    data.confidence >= ConfidenceThreshold /\ data.text # ""

\* Line 162: the identity answer is taken as the display name.
NameAccepted(data) == data.confidence > ConfidenceThreshold /\ data.text # ""

\* Lines 161-175: the identity worker answers task j.
NameDone(j) ==
    /\ pc = "recognize"
    /\ tasks[j] = "name"
    /\ \E data \in NameData :
        /\ identity' = [j |-> j, confidence |-> data.confidence, text |-> data.text]
        /\ participantDisplayName' = IF NameAccepted(data) THEN data.text ELSE ""
    /\ tasks' = [tasks EXCEPT ![j] = "done"]
    /\ answer' = NoAnswer
    /\ UNCHANGED handles
    /\ UNCHANGED <<orchVars, graphVars, poolVars>>
    /\ UNCHANGED <<call, src, fpath, pc, parseVars, started, ptsToRecognized,
                   resolved, info, fixVars, error>>

\* Line 153: the identity worker rejects; the task rejects with the
\* placeholder still in participantDisplayName.
NameThrow(j) ==
    /\ pc = "recognize"
    /\ tasks[j] = "name"
    /\ tasks' = [tasks EXCEPT ![j] = "rejected"]
    /\ answer' = NoAnswer
    /\ identity' = NoIdentity
    /\ UNCHANGED handles
    /\ UNCHANGED <<orchVars, graphVars, poolVars>>
    /\ UNCHANGED <<call, src, fpath, pc, parseVars, started, ptsToRecognized,
                   resolved, participantDisplayName, info, fixVars, error>>

\* ------------------------------------------------ reconciliation (188-215)
\* ReconcileFrom that takes the keys as consecutive: previous value plus one.
RECURSIVE ReconcileFromByOne(_, _, _)
ReconcileFromByOne(m, keys, i) ==
    IF i > Len(keys) THEN m
    ELSE LET pts == keys[i]
             recognizedPts == IF pts \in DOMAIN m THEN m[pts] ELSE 0
             prevRecognizedPts ==
                 IF keys[i - 1] \in DOMAIN m THEN m[keys[i - 1]] ELSE 0
         IN IF recognizedPts = 0 /\ i > 1
            THEN IF prevRecognizedPts # 0
                 THEN ReconcileFromByOne(
                        [x \in DOMAIN m \cup {pts} |->
                           IF x = pts THEN prevRecognizedPts + 1 ELSE m[x]],
                        keys, i + 1)
                 ELSE ReconcileFromByOne([x \in DOMAIN m \ {pts} |-> m[x]], keys, i + 1)
            ELSE ReconcileFromByOne(m, keys, i + 1)

\* ReconcileFrom that keeps a key whose predecessor has no usable value.
RECURSIVE ReconcileFromKeep(_, _, _)
ReconcileFromKeep(m, keys, i) ==
    IF i > Len(keys) THEN m
    ELSE LET pts == keys[i]
             recognizedPts == IF pts \in DOMAIN m THEN m[pts] ELSE 0
             prevRecognizedPts ==
                 IF keys[i - 1] \in DOMAIN m THEN m[keys[i - 1]] ELSE 0
         IN IF recognizedPts = 0 /\ i > 1
            THEN ReconcileFromKeep(
                   [x \in DOMAIN m \cup {pts} |->
                      IF x = pts THEN prevRecognizedPts + pts - keys[i - 1] ELSE m[x]],
                   keys, i + 1)
            ELSE ReconcileFromKeep(m, keys, i + 1)

\* Lines 189-199: the loop over the sorted keys, from the i-th on (1-based);
\* `keys` is the array sorted before the loop, `m` the Map it updates.
RECURSIVE ReconcileFrom(_, _, _)
ReconcileFrom(m, keys, i) ==
    IF i > Len(keys) THEN m
    ELSE LET pts == keys[i]
             recognizedPts == RecGet(m, pts)
             prevRecognizedPts == RecGet(m, keys[i - 1])
         IN IF recognizedPts = 0 /\ i > 1
            THEN IF prevRecognizedPts # 0
                 THEN ReconcileFrom(
                        RecSet(m, pts, prevRecognizedPts + pts - keys[i - 1]),
                        keys, i + 1)
                 ELSE ReconcileFrom(RecDelete(m, pts), keys, i + 1)
            ELSE ReconcileFrom(m, keys, i + 1)

\* Lines 188-199.
Reconcile(m) == ReconcileFrom(m, SortAsc(DOMAIN m), 1)

\* Lines 201-207: the catalogue entries from the j-th on are re-keyed into
\* `out` under their resolved pts.
RECURSIVE RekeyFrom(_, _, _, _)
RekeyFrom(cat, m, j, out) ==
    IF j > Len(cat) THEN out
    ELSE LET recognizedPts == RecGet(m, cat[j].key)
         IN IF recognizedPts # 0
            THEN RekeyFrom(cat, m, j + 1, MapSet(out, recognizedPts, cat[j].val))
            ELSE RekeyFrom(cat, m, j + 1, out)

\* Lines 201-209.
RecognizedFrames(cat, m) == RekeyFrom(cat, m, 1, <<>>)

\* Lines 38-39 and 184-215: every chunk has settled, chunkedPromiseAll
\* returns and the locals of the recognizeFrame calls are gone; the Map is
\* reconciled, the catalogue replaced, parseIvf returns.
Recover ==
    /\ pc = "recognize"
    /\ started = Len(tasks)
    /\ \A j \in 1..Len(tasks) : Settled(tasks[j])
    /\ LET m == Reconcile(ptsToRecognized)
           recognizedFrames == RecognizedFrames(frames, m)
       IN /\ resolved' = m
          /\ frames' = recognizedFrames
          /\ info' = [den |-> src.den, num |-> src.num,
                      ptsIndex |-> PtsIndex(recognizedFrames),
                      frames |-> recognizedFrames,
                      participantDisplayName |-> participantDisplayName]
    /\ answer' = NoAnswer
    /\ identity' = NoIdentity
    /\ pc' = AfterParse
    /\ handles' = handles \ {ClockPool, ParseFd}
    /\ UNCHANGED <<orchVars, graphVars, poolVars>>
    /\ UNCHANGED <<call, src, fpath, position, index, tasks, started,
                   ptsToRecognized, participantDisplayName, fixVars, error>>

\* ------------------------------------------------- fixIvfFrames (218-319)
\* fs.promises.open(outFilePath, 'w'): the file exists and is empty.
Truncated == [exists |-> TRUE, headerBytes |-> 0, den |-> 0, num |-> 0, count |-> 0,
              recs |-> <<>>, tail |-> 0]

\* Lines 245-250: the locals before the loop.
FirstLocals == [i |-> 1, position |-> HeaderSize, writtenFrames |-> 0, startPts |-> -1,
                previousPts |-> -1, previousFrame |-> NoFrame, duplicatedFrames |-> 0]

\* CheckRecovered that opens the output before it checks the IvfInfo.
CheckRecoveredAfterOpen ==
    /\ pc = "check"
    /\ fixed' = Truncated
    /\ IF info.participantDisplayName = ""
       THEN /\ error' = "no participant name found"
            /\ pc' = "failed"
            /\ UNCHANGED w
       ELSE IF Len(info.ptsIndex) = 0
       THEN /\ error' = "no frames found"
            /\ pc' = "failed"
            /\ UNCHANGED w
       ELSE /\ w' = FirstLocals
            /\ pc' = "repair"
            /\ UNCHANGED error
    /\ handles' = handles \cup {SourceFd, FixedFd}
    /\ UNCHANGED <<orchVars, graphVars, poolVars>>
    /\ UNCHANGED <<call, src, fpath, parseVars, recogVars, info, vmafInfo, ret>>

\* Lines 219-250: the recovered IvfInfo is checked, then both files are
\* opened and the source header is read.
CheckRecovered ==
    /\ pc = "check"
    /\ IF info.participantDisplayName = ""
       THEN /\ error' = "no participant name found"
            /\ pc' = "failed"
            /\ UNCHANGED <<fixed, w>>
       ELSE IF Len(info.ptsIndex) = 0
       THEN /\ error' = "no frames found"
            /\ pc' = "failed"
            /\ UNCHANGED <<fixed, w>>
       ELSE /\ fixed' = Truncated
            /\ w' = FirstLocals
            /\ pc' = "repair"
            /\ UNCHANGED error
    /\ handles' = IF info.participantDisplayName # "" /\ Len(info.ptsIndex) # 0
                   THEN handles \cup {SourceFd, FixedFd}
                   ELSE handles
    /\ UNCHANGED <<orchVars, graphVars, poolVars>>
    /\ UNCHANGED <<call, src, fpath, parseVars, recogVars, info, vmafInfo, ret>>

\* A DataView over a frame record: byteLength, and the size field, the pts
\* field (offset 4) and the payload it holds.
FrameView(len, rec) == [len |-> len, size |-> rec.size, pts |-> rec.pts, data |-> rec.data]

\* SetPts that leaves the pts field as it was read.
SetPtsUnpatched(view, pts) == view

\* frameView.setBigUint64(4, BigInt(pts), true)
SetPts(view, pts) == [view EXCEPT !.pts = pts]

\* fixedFd.write(view, 0, view.byteLength, pos): the bytes land at pos and
\* the file is at least a header long from then on.
Write(f, pos, view) ==
    [f EXCEPT !.headerBytes = HeaderSize,
              !.recs = Append(SelectSeq(@, LAMBDA r : r.pos # pos),
                              [pos |-> pos, size |-> view.size, pts |-> view.pts,
                               data |-> view.data])]

\* Lines 269-281: the copies of previousFrame for the pts values from..to,
\* written from `pos` on.
RECURSIVE WriteCopies(_, _, _, _, _)
WriteCopies(f, view, from, to, pos) ==
    IF from > to THEN f
    ELSE WriteCopies(Write(f, pos, SetPts(view, from)), view, from + 1, to,
                     pos + view.len)

\* Line 259: a gap before pts.
HasGap(l, pts) ==
    /\ l.previousFrame # NoFrame
    /\ l.previousPts >= 0
    /\ pts - 1 - l.previousPts > 0

\* TooManyMissing that takes a gap of exactly one hour as too large.
TooManyMissingFromBound(missing, den, num) == missing * num >= den * SecondsPerHour

\* Line 261: missing > frameRate * 60 * 60, with frameRate = den / num.
TooManyMissing(missing, den, num) == missing * num > den * SecondsPerHour

\* Advance that takes the first frame written as previousFrame for good.
AdvanceKeepFirst(l, pts, copies, frameView) ==
    [i |-> l.i + 1,
     position |-> l.position + copies * l.previousFrame.len + frameView.len,
     writtenFrames |-> l.writtenFrames + copies + 1,
     startPts |-> IF l.startPts < 0 THEN pts ELSE l.startPts,
     previousPts |-> pts,
     previousFrame |-> IF l.previousFrame = NoFrame THEN frameView
                       ELSE [l.previousFrame EXCEPT !.pts = pts],
     duplicatedFrames |-> l.duplicatedFrames + copies]

\* Advance that takes the pts of every frame written as startPts.
AdvanceStartLast(l, pts, copies, frameView) ==
    [i |-> l.i + 1,
     position |-> l.position + copies * l.previousFrame.len + frameView.len,
     writtenFrames |-> l.writtenFrames + copies + 1,
     startPts |-> pts,
     previousPts |-> pts,
     previousFrame |-> frameView,
     duplicatedFrames |-> l.duplicatedFrames + copies]

\* Lines 293-299 (and 278-280 for the copies): the locals after the frame
\* at pts went out as frameView, behind `copies` copies of the previous one.
Advance(l, pts, copies, frameView) ==
    [i |-> l.i + 1,
     position |-> l.position + copies * l.previousFrame.len + frameView.len,
     writtenFrames |-> l.writtenFrames + copies + 1,
     startPts |-> IF l.startPts < 0 THEN pts ELSE l.startPts,
     previousPts |-> pts,
     previousFrame |-> frameView,
     duplicatedFrames |-> l.duplicatedFrames + copies]

\* Lines 252-300, one turn of the loop: the gap before pts is filled with
\* copies of the previous frame, or the call throws; then the frame is read
\* from the source, its pts patched, and written.
RepairFrame ==
    /\ pc = "repair"
    /\ w.i <= Len(info.ptsIndex)
    /\ LET pts == info.ptsIndex[w.i]
           frame == MapGet(info.frames, pts)
           missing == pts - 1 - w.previousPts
           copies == IF HasGap(w, pts) THEN missing ELSE 0
           position1 == w.position + copies * w.previousFrame.len
           fixed1 == WriteCopies(fixed, w.previousFrame, w.previousPts + 1,
                                 w.previousPts + copies, w.position)
           frameView == SetPts(FrameView(frame.size, RecordAt(src, frame.position)), pts)
       IN IF HasGap(w, pts) /\ TooManyMissing(missing, info.den, info.num)
          THEN /\ error' = "too many frames missing"
               /\ pc' = "failed"
               /\ UNCHANGED <<fixed, w>>
          ELSE /\ fixed' = Write(fixed1, position1, frameView)
               /\ w' = Advance(w, pts, copies, frameView)
               /\ UNCHANGED <<pc, error>>
    /\ UNCHANGED handles
    /\ UNCHANGED <<orchVars, graphVars, poolVars>>
    /\ UNCHANGED <<call, src, fpath, parseVars, recogVars, info, vmafInfo, ret>>

\* FrameCount that counts the frames of the catalogue only.
FrameCountOriginals(l) == l.writtenFrames - l.duplicatedFrames

\* Line 302: the value that goes into the frame-count field.
FrameCount(l) == l.writtenFrames

\* Lines 302-318: the header goes out with the frame count, the call returns.
FinishRepair ==
    /\ pc = "repair"
    /\ w.i > Len(info.ptsIndex)
    /\ fixed' = [fixed EXCEPT !.headerBytes = HeaderSize, !.den = src.den,
                              !.num = src.num, !.count = FrameCount(w)]
    /\ ret' = [participantDisplayName |-> info.participantDisplayName,
               startPts |-> w.startPts]
    /\ pc' = "fixed"
    /\ handles' = handles \ {SourceFd, FixedFd}
    /\ UNCHANGED <<orchVars, graphVars, poolVars>>
    /\ UNCHANGED <<call, src, fpath, parseVars, recogVars, info, vmafInfo, w, error>>

\* Lines 331-337: runVmaf parses the repaired container without recognizer.
VmafParse ==
    /\ pc = "fixed"
    /\ fpath' = "fixed"
    /\ pc' = "open"
    /\ UNCHANGED handles
    /\ UNCHANGED <<orchVars, graphVars, poolVars>>
    /\ UNCHANGED <<call, src, parseVars, recogVars, info, fixVars, error>>

Next ==
    \/ ParseOpen
    \/ ReadFrame
    \/ EndOfStream
    \/ StartChunk
    \/ \E j \in 1..Len(tasks) : ClockDone(j)
    \/ \E j \in 1..Len(tasks) : ClockThrow(j)
    \/ \E j \in 1..Len(tasks) : NameDone(j)
    \/ \E j \in 1..Len(tasks) : NameThrow(j)
    \/ Recover
    \/ CheckRecovered
    \/ RepairFrame
    \/ FinishRepair
    \/ VmafParse

Spec == Init /\ [][Next]_vars

\* ------------------------------------------------------------------ strings
\* A string is the sequence of its characters.
\* String.startsWith(pat, i - 1): pat stands in s from the i-th character on.
OccursAt(s, pat, i) ==
    /\ i >= 1
    /\ i + Len(pat) - 1 <= Len(s)
    /\ \A k \in 1..Len(pat) : s[i + k - 1] = pat[k]

\* String.indexOf(pat) + 1: the place of the first occurrence, 0 for none.
IndexOf(s, pat) ==
    IF \E i \in 1..Len(s) : OccursAt(s, pat, i)
    THEN CHOOSE i \in 1..Len(s) :
            OccursAt(s, pat, i) /\ \A h \in 1..(i - 1) : ~OccursAt(s, pat, h)
    ELSE 0

\* String.includes(pat)
Includes(s, pat) == IndexOf(s, pat) # 0

\* String.endsWith(suffix)
EndsWith(s, suffix) == OccursAt(s, suffix, Len(s) - Len(suffix) + 1)

\* String.replace(pat, by) with a string pattern: the first occurrence only.
ReplaceFirst(s, pat, by) ==
    LET i == IndexOf(s, pat)
    IN IF i = 0 THEN s
       ELSE SubSeq(s, 1, i - 1) \o by \o SubSeq(s, i + Len(pat), Len(s))

\* String.split(sep)[0]: what stands before the first sep, all of s for none.
FirstPart(s, sep) ==
    LET i == IndexOf(s, sep)
    IN IF i = 0 THEN s ELSE SubSeq(s, 1, i - 1)

\* path.basename(p): what follows the last "/".
Basename(p) ==
    LET slashes == {i \in 1..Len(p) : p[i] = "/"}
    IN IF slashes = {} THEN p
       ELSE SubSeq(p, (CHOOSE i \in slashes : \A h \in slashes : h <= i) + 1, Len(p))

\* path.join(dir, name) of a directory and a relative path, both normalized.
PathJoin(dir, name) == dir \o <<"/">> \o name

\* The literals of fixIvfFrames and calculateVmafScore.
SendMarker == <<"-", "s", "e", "n", "d">>
RecvMarker == <<"-", "r", "e", "c", "v">>
RecvBy == <<"r", "e", "c", "v", "-", "b", "y">>
IvfExt == <<".", "i", "v", "f">>
Underscore == <<"_">>
VmafDir == <<"v", "m", "a", "f">>

\* ------------------------------------------------- output naming (230-239)
\* ReceiverToken that leaves the recv marker in the token.
ReceiverTokenKept(token) == token

\* Lines 235-238: parts[0].replace('-recv', '')
ReceiverToken(token) == ReplaceFirst(token, RecvMarker, <<>>)

\* Lines 230-239: the output path for the source fpath and the display name.
OutFilePath(fpathIn, outDir, name) ==
    LET token == FirstPart(Basename(fpathIn), Underscore)
    IN PathJoin(outDir,
                IF EndsWith(token, SendMarker)
                THEN name \o IvfExt
                ELSE name \o Underscore \o RecvBy \o Underscore
                          \o ReceiverToken(token) \o IvfExt)

\* Line 474: outFilePath.includes('recv-by')
IsDegradedPath(outFilePath) == Includes(outFilePath, RecvBy)

\* Line 498: path.basename(degradedPath).replace('.ivf', '')
ReportKey(degradedPath) == ReplaceFirst(Basename(degradedPath), IvfExt, <<>>)

\* ------------------------------------------- calculateVmafScore (451-515)
\* Largest number of capture files under vmafPath.
MaxFiles == 3

\* Capture files: a send-side one, two that one receiver wrote for two
\* tracks, and a send-side one of the same name in a subdirectory.
AliceSendX ==
    <<"a", "l", "i", "c", "e", "-", "s", "e", "n", "d", "_", "x", ".", "i", "v", "f">>
BobRecvY == <<"b", "o", "b", "-", "r", "e", "c", "v", "_", "y", ".", "i", "v", "f">>
BobRecvZ == <<"b", "o", "b", "-", "r", "e", "c", "v", "_", "z", ".", "i", "v", "f">>
SubAliceSendX == <<"b", "/">> \o AliceSendX

CaptureNames == {AliceSendX, BobRecvY, BobRecvZ, SubAliceSendX}

\* What readdir gives, filtered (lines 458-460): distinct relative paths
\* that end in .ivf and do not start with vmaf/, in any order.
Listings ==
    {l \in SeqsUpTo(CaptureNames, MaxFiles) :
        \A i, j \in 1..Len(l) : i # j => l[i] # l[j]}

\* Display names, as characters.
Alice == <<"A", "l", "i", "c", "e">>
Bob == <<"B", "o", "b">>

\* config.vmafPath: a directory, and one whose name holds the text recv-by.
VmafPaths == {<<"r", "u", "n">>, RecvBy}

\* What fixIvfFrames may do with a capture file: throw before it opens the
\* output (line 222), throw in the write loop (line 262) with the output
\* opened and its first frame written, or return.  startPts is the first
\* timestamp written, den / num the frame rate of the capture.
RepairOutcomes ==
    {[error |-> "no participant name found", participantDisplayName |-> <<>>,
      startPts |-> -1, den |-> 0, num |-> 0],
     [error |-> "too many frames missing", participantDisplayName |-> Alice,
      startPts |-> 100, den |-> 30, num |-> 1],
     [error |-> "", participantDisplayName |-> Alice, startPts |-> 100,
      den |-> 30, num |-> 1],
     [error |-> "", participantDisplayName |-> Alice, startPts |-> 130,
      den |-> 15, num |-> 1],
     [error |-> "", participantDisplayName |-> Bob, startPts |-> 130,
      den |-> 30, num |-> 1]}

\* Lines 221-226: the errors thrown before line 241 opens the output.
EarlyErrors == {"Invalid IVF file", "no participant name found", "no frames found"}

\* Line 462: outPath
OutPath == PathJoin(config.vmafPath, VmafDir)

\* The file fixIvfFrames leaves at outFilePath: the repaired container of
\* the capture `by`, or, when the write loop threw, frame records behind a
\* header that was never written (it reads as zeros: den = num = 0).
Content(out, by) ==
    [complete |-> out.error = "", by |-> by, startPts |-> out.startPts,
     den |-> IF out.error = "" THEN out.den ELSE 0,
     num |-> IF out.error = "" THEN out.num ELSE 0]

\* The files under outPath, as a function from their paths.
OnDisk(d, path) == path \in DOMAIN d

\* open(path, 'w') and the writes that follow: the file is made or replaced.
DiskWrite(d, path, content) ==
    [x \in DOMAIN d \cup {path} |-> IF x = path THEN content ELSE d[x]]

\* fs.promises.unlink(path) of a file that is there.
DiskUnlink(d, path) == [x \in DOMAIN d \ {path} |-> d[x]]

\* Line 480: reference.set(participantDisplayName, outFilePath)
RegisterReference(ref, name, path) == MapSet(ref, name, path)

\* Lines 475-478: the list of the name is made when missing, then pushed to.
RegisterDegraded(deg, name, path) ==
    MapSet(deg, name, Append(IF MapHas(deg, name) THEN MapGet(deg, name) ELSE <<>>, path))

\* An entry of the log: the call, its path arguments, the display name
\* fixIvfFrames came to, and how the call ended.
Event(op, path, other, name, ok) ==
    [op |-> op, path |-> path, other |-> other, name |-> name, ok |-> ok]

\* ScanAfter that lets the error of fixIvfFrames end the scan.
ScanAfterRethrow(err) == IF err = "" THEN "scan" ELSE "aborted"

\* Lines 469-484: the try block catches what fixIvfFrames throws; the loop
\* goes on either way.
ScanAfter(err) == "scan"

OrchInit ==
    /\ RepairIdle
    /\ GraphIdle
    /\ PoolIdle
    /\ config \in [vmafPath : VmafPaths, vmafKeepIntermediateFiles : BOOLEAN]
    /\ files \in Listings
    /\ opc = "scan"
    /\ scanned = 0
    /\ reference = <<>>
    /\ degraded = <<>>
    /\ disk = <<>>
    /\ refIdx = 0
    /\ degIdx = 0
    /\ scoring = NoScoring
    /\ report = <<>>
    /\ written = <<>>
    /\ log = <<>>
    /\ oerror = ""

\* Lines 467-485, one turn of the first loop: fixIvfFrames on the next file;
\* what it returned is registered by the marker in its output path.
Repair ==
    /\ opc = "scan"
    /\ scanned < Len(files)
    /\ LET filePath == PathJoin(config.vmafPath, files[scanned + 1])
       IN \E out \in RepairOutcomes :
            LET outFilePath ==
                    OutFilePath(filePath, OutPath, out.participantDisplayName)
                opened == out.error \notin EarlyErrors
            IN /\ disk' = IF opened
                          THEN DiskWrite(disk, outFilePath, Content(out, filePath))
                          ELSE disk
               /\ IF out.error # ""
                  THEN UNCHANGED <<reference, degraded>>
                  ELSE IF IsDegradedPath(outFilePath)
                  THEN /\ degraded' = RegisterDegraded(
                                         degraded, out.participantDisplayName, outFilePath)
                       /\ UNCHANGED reference
                  ELSE /\ reference' = RegisterReference(
                                          reference, out.participantDisplayName, outFilePath)
                       /\ UNCHANGED degraded
               /\ log' = Append(log, Event("fixIvfFrames", filePath,
                                           IF opened THEN outFilePath ELSE <<>>,
                                           out.participantDisplayName,
                                           out.error = ""))
               /\ opc' = ScanAfter(out.error)
               /\ oerror' = IF ScanAfter(out.error) = "aborted" THEN out.error ELSE oerror
    /\ scanned' = scanned + 1
    /\ UNCHANGED <<config, files, refIdx, degIdx, scoring, report, written>>
    /\ UNCHANGED <<repairVars, graphVars, poolVars>>

\* Lines 485-488: the first loop is through, the second one starts.
EndScan ==
    /\ opc = "scan"
    /\ scanned = Len(files)
    /\ opc' = "pairs"
    /\ refIdx' = 1
    /\ degIdx' = 1
    /\ UNCHANGED <<config, files, scanned, reference, degraded, disk, scoring,
                   report, written, log, oerror>>
    /\ UNCHANGED <<repairVars, graphVars, poolVars>>

\* The participant the second loop is at, its reference and its degraded list
\* (line 491: degraded.get(participantDisplayName) || []).
CurrentName == reference[refIdx].key

CurrentReference == reference[refIdx].val

CurrentDegraded ==
    IF MapHas(degraded, CurrentName) THEN MapGet(degraded, CurrentName) ELSE <<>>

\* PtsDiff taken the other way round.
PtsDiffReversed(deg, ref) == ref.startPts - deg.startPts

\* Line 338: degradedPtsIndex[0] - referencePtsIndex[0], the first
\* timestamps parseIvf finds in the two files.
PtsDiff(deg, ref) == deg.startPts - ref.startPts

\* Lines 350 and 361: ptsDiff / frameRate with frameRate = den / num (line
\* 59), as the fraction n / d; d = 0 stands for the NaN of a zero header.
Offset(ptsDiff, den, num) == [n |-> ptsDiff * num, d |-> den]

\* Lines 493 and 326-346: runVmaf is called for the next degraded path; it
\* parses both files, which throws when one is not there, and builds the
\* command line from the reference's header and the two first timestamps.
RunVmaf ==
    /\ opc = "pairs"
    /\ refIdx <= Len(reference)
    /\ degIdx <= Len(CurrentDegraded)
    /\ LET referencePath == CurrentReference
           degradedPath == CurrentDegraded[degIdx]
           there == OnDisk(disk, referencePath) /\ OnDisk(disk, degradedPath)
       IN /\ log' = Append(log, Event("runVmaf", degradedPath, referencePath, <<>>,
                                      there))
          /\ IF there
             THEN /\ scoring' = [referencePath |-> referencePath,
                                 degradedPath |-> degradedPath,
                                 ss |-> Offset(PtsDiff(disk[degradedPath],
                                                       disk[referencePath]),
                                               disk[referencePath].den,
                                               disk[referencePath].num)]
                  /\ opc' = "ffmpeg"
             ELSE /\ scoring' = [NoScoring EXCEPT !.referencePath = referencePath,
                                                  !.degradedPath = degradedPath]
                  /\ opc' = "finally"
    /\ UNCHANGED <<config, files, scanned, reference, degraded, disk, refIdx, degIdx,
                   report, written, oerror>>
    /\ UNCHANGED <<repairVars, graphVars, poolVars>>

\* The pooled metrics the scoring of a pair gives.
Metrics(referencePath, degradedPath) ==
    [reference |-> referencePath, degraded |-> degradedPath]

\* Lines 370-381 and 498-500: the subprocess, the parse of its log and
\* writeGraph succeed and the metrics go into ret, or one of them throws and
\* the catch logs it.
Ffmpeg ==
    /\ opc = "ffmpeg"
    /\ \E ok \in BOOLEAN :
        /\ report' = IF ok
                     THEN MapSet(report, ReportKey(scoring.degradedPath),
                                 Metrics(scoring.referencePath, scoring.degradedPath))
                     ELSE report
        /\ log' = Append(log, Event("scored", scoring.degradedPath,
                                    scoring.referencePath, <<>>, ok))
    /\ opc' = "finally"
    /\ UNCHANGED <<config, files, scanned, reference, degraded, disk, refIdx, degIdx,
                   scoring, written, oerror>>
    /\ UNCHANGED <<repairVars, graphVars, poolVars>>

\* Lines 501-505: the finally block unlinks the degraded file unless the
\* files are kept; an unlink that fails ends calculateVmafScore.
Finally ==
    /\ opc = "finally"
    /\ IF config.vmafKeepIntermediateFiles
       THEN /\ opc' = "pairs"
            /\ degIdx' = degIdx + 1
            /\ UNCHANGED <<disk, log, oerror>>
       ELSE IF OnDisk(disk, scoring.degradedPath)
       THEN /\ disk' = DiskUnlink(disk, scoring.degradedPath)
            /\ log' = Append(log, Event("unlink", scoring.degradedPath, <<>>, <<>>, TRUE))
            /\ opc' = "pairs"
            /\ degIdx' = degIdx + 1
            /\ UNCHANGED oerror
       ELSE /\ log' = Append(log, Event("unlink", scoring.degradedPath, <<>>, <<>>,
                                        FALSE))
            /\ oerror' = "ENOENT"
            /\ opc' = "aborted"
            /\ UNCHANGED <<disk, degIdx>>
    /\ scoring' = NoScoring
    /\ UNCHANGED <<config, files, scanned, reference, degraded, refIdx, report, written>>
    /\ UNCHANGED <<repairVars, graphVars, poolVars>>

\* Lines 506-510: the degraded list of the participant is through; the
\* reference is unlinked unless the files are kept.
NextReference ==
    /\ opc = "pairs"
    /\ refIdx <= Len(reference)
    /\ degIdx > Len(CurrentDegraded)
    /\ IF config.vmafKeepIntermediateFiles
       THEN /\ refIdx' = refIdx + 1
            /\ degIdx' = 1
            /\ UNCHANGED <<disk, log, opc, oerror>>
       ELSE IF OnDisk(disk, CurrentReference)
       THEN /\ disk' = DiskUnlink(disk, CurrentReference)
            /\ log' = Append(log, Event("unlink", CurrentReference, <<>>, <<>>, TRUE))
            /\ refIdx' = refIdx + 1
            /\ degIdx' = 1
            /\ UNCHANGED <<opc, oerror>>
       ELSE /\ log' = Append(log, Event("unlink", CurrentReference, <<>>, <<>>, FALSE))
            /\ oerror' = "ENOENT"
            /\ opc' = "aborted"
            /\ UNCHANGED <<disk, refIdx, degIdx>>
    /\ UNCHANGED <<config, files, scanned, reference, degraded, scoring, report, written>>
    /\ UNCHANGED <<repairVars, graphVars, poolVars>>

\* Lines 511-514: the report is written to vmaf.json.
WriteReport ==
    /\ opc = "pairs"
    /\ refIdx > Len(reference)
    /\ written' = Append(written, report)
    /\ opc' = "ended"
    /\ UNCHANGED <<config, files, scanned, reference, degraded, disk, refIdx, degIdx,
                   scoring, report, log, oerror>>
    /\ UNCHANGED <<repairVars, graphVars, poolVars>>

OrchNext ==
    \/ Repair
    \/ EndScan
    \/ RunVmaf
    \/ Ffmpeg
    \/ Finally
    \/ NextReference
    \/ WriteReport

OrchSpec == OrchInit /\ [][OrchNext]_vars

\* ------------------------------------------------------ writeGraph (384-449)
\* Largest number of frames in the log of the scoring.
MaxSeries == 4

\* Per-frame scores and frame rates of the inputs.
VmafValues == {0, 60, 90}
GraphRates == {1, 2, 3}

\* vmafLog.frames as libvmaf writes it: one entry a frame, numbered from 0.
VmafLogs ==
    {[i \in 1..Len(s) |-> [frameNum |-> i - 1, vmaf |-> s[i]]] :
        s \in SeqsUpTo(VmafValues, MaxSeries)}

\* cur.metrics.vmaf / frameRate, as a fraction over the frame rate.
Share(vmaf, rate) == [n |-> vmaf, d |-> rate]

\* Line 401: cur.frameNum % frameRate === 0
StartsBucket(frameNum, rate) == frameNum % rate = 0

\* Lines 400-407, the callback of the reduce: a frame whose number is a
\* multiple of frameRate opens a bucket with its share, any other frame adds
\* its share to the last bucket.
Summarize(acc, cur, rate) ==
    IF StartsBucket(cur.frameNum, rate)
    THEN Append(acc, [x |-> cur.frameNum, y |-> Share(cur.vmaf, rate)])
    ELSE [acc EXCEPT ![Len(acc)].y.n = @ + Share(cur.vmaf, rate).n]

GraphInit ==
    /\ RepairIdle
    /\ OrchIdle
    /\ PoolIdle
    /\ gpc = "reduce"
    /\ vmafLog \in VmafLogs
    /\ frameRate \in GraphRates
    /\ gi = 0
    /\ prev = <<>>

\* One turn of the reduce; prev[prev.length - 1] of an empty accumulator is
\* undefined and the assignment to its y throws.
Fold ==
    /\ gpc = "reduce"
    /\ gi < Len(vmafLog)
    /\ LET cur == vmafLog[gi + 1]
       IN IF ~StartsBucket(cur.frameNum, frameRate) /\ prev = <<>>
          THEN /\ gpc' = "threw"
               /\ UNCHANGED prev
          ELSE /\ prev' = Summarize(prev, cur, frameRate)
               /\ UNCHANGED gpc
    /\ gi' = gi + 1
    /\ UNCHANGED <<vmafLog, frameRate>>
    /\ UNCHANGED <<repairVars, orchVars, poolVars>>

\* Lines 409-448: the reduce is through; data goes to the chart.
Render ==
    /\ gpc = "reduce"
    /\ gi = Len(vmafLog)
    /\ gpc' = "rendered"
    /\ UNCHANGED <<vmafLog, frameRate, gi, prev>>
    /\ UNCHANGED <<repairVars, orchVars, poolVars>>

GraphNext ==
    \/ Fold
    \/ Render

GraphSpec == GraphInit /\ [][GraphNext]_vars

\* ------------------------------------------------ chunkedPromiseAll (26-40)
\* Largest number of items.
MaxItems == 4

\* The items and the chunk sizes of the calls; 1 is the default chunk size.
ItemValues == {"a", "b"}
ChunkSizes == {1, 2, 3}

\* A slot of Array(items.length) that was never assigned.
Hole == [hole |-> TRUE]

\* The value f(item, index) fulfils with, when it fulfils.
F(item, at) == [item |-> item, index |-> at]

\* Slot that counts within the chunk.
SlotInChunk(from, i) == i

\* Line 35: results[index + i]
Slot(from, i) == from + i

PoolInit ==
    /\ RepairIdle
    /\ OrchIdle
    /\ GraphIdle
    /\ ppc = "loop"
    /\ items \in SeqsUpTo(ItemValues, MaxItems)
    /\ chunkSize \in ChunkSizes
    /\ poolIndex = 0
    /\ promises = [k \in 1..Len(items) |-> "pending"]
    /\ results = [k \in 1..Len(items) |-> Hole]
    /\ settledOrder = <<>>

\* The positions (0-based) of items.slice(index, index + chunkSize).
Chunk == {k \in 0..(Len(items) - 1) : poolIndex <= k /\ k < poolIndex + chunkSize}

\* Lines 32-36: the test of the for loop holds; the chunk is sliced and
\* mapped, and every callback runs up to its await of f.
MapChunk ==
    /\ ppc = "loop"
    /\ poolIndex < Len(items)
    /\ promises' = [k \in 1..Len(items) |->
                      IF k - 1 \in Chunk THEN "awaiting" ELSE promises[k]]
    /\ ppc' = "allSettled"
    /\ UNCHANGED <<items, chunkSize, poolIndex, results, settledOrder>>
    /\ UNCHANGED <<repairVars, orchVars, graphVars>>

\* Line 35: f fulfils for the i-th item of the chunk; the callback stores
\* the value and its promise is fulfilled.
Fulfil(i) ==
    /\ ppc = "allSettled"
    /\ poolIndex + i \in Chunk
    /\ promises[poolIndex + i + 1] = "awaiting"
    /\ results' = [results EXCEPT ![Slot(poolIndex, i) + 1] =
                      F(items[poolIndex + i + 1], poolIndex + i)]
    /\ promises' = [promises EXCEPT ![poolIndex + i + 1] = "fulfilled"]
    /\ settledOrder' = Append(settledOrder, poolIndex + i)
    /\ UNCHANGED <<ppc, items, chunkSize, poolIndex>>
    /\ UNCHANGED <<repairVars, orchVars, graphVars>>

\* Line 35: f rejects for the i-th item of the chunk; the callback throws
\* at its await and its promise is rejected.
Reject(i) ==
    /\ ppc = "allSettled"
    /\ poolIndex + i \in Chunk
    /\ promises[poolIndex + i + 1] = "awaiting"
    /\ promises' = [promises EXCEPT ![poolIndex + i + 1] = "rejected"]
    /\ settledOrder' = Append(settledOrder, poolIndex + i)
    /\ UNCHANGED <<ppc, items, chunkSize, poolIndex, results>>
    /\ UNCHANGED <<repairVars, orchVars, graphVars>>

\* Lines 32-33: Promise.allSettled resolves once every promise of the chunk
\* is fulfilled or rejected; the loop goes on with index += chunkSize.
ChunkSettled ==
    /\ ppc = "allSettled"
    /\ \A k \in Chunk : promises[k + 1] \in {"fulfilled", "rejected"}
    /\ poolIndex' = poolIndex + chunkSize
    /\ ppc' = "loop"
    /\ UNCHANGED <<items, chunkSize, promises, results, settledOrder>>
    /\ UNCHANGED <<repairVars, orchVars, graphVars>>

\* Line 39: the loop is through, results is returned.
ReturnResults ==
    /\ ppc = "loop"
    /\ poolIndex >= Len(items)
    /\ ppc' = "returned"
    /\ UNCHANGED <<items, chunkSize, poolIndex, promises, results, settledOrder>>
    /\ UNCHANGED <<repairVars, orchVars, graphVars>>

PoolNext ==
    \/ MapChunk
    \/ \E i \in 0..(chunkSize - 1) : Fulfil(i)
    \/ \E i \in 0..(chunkSize - 1) : Reject(i)
    \/ ChunkSettled
    \/ ReturnResults

PoolSpec == PoolInit /\ [][PoolNext]_vars

\* ================================================================== claims
\* fixIvfFrames has returned (line 318).
Repaired == call = "fixIvfFrames" /\ (pc = "fixed" \/ fpath = "fixed")

\* runVmaf has the IvfInfo of the repaired container (line 337).
Reparsed == fpath = "fixed" /\ pc = "done"

\* The frame records of the output in file order.
OutRecs ==
    LET offsets == SortAsc({fixed.recs[j].pos : j \in 1..Len(fixed.recs)})
    IN [j \in 1..Len(offsets) |-> RecordAt(fixed, offsets[j])]

\* Their embedded timestamps.
OutPts ==
    LET recs == OutRecs
    IN [j \in 1..Len(recs) |-> recs[j].pts]

\* The recovered timestamps: the keys of the catalogue parseIvf returned.
Recovered == MapKeys(info.frames)

MinOf(S) == CHOOSE x \in S : \A y \in S : x <= y

MaxOf(S) == CHOOSE x \in S : \A y \in S : x >= y

\* C1: after a successful repair the timestamps of the output records, in
\* file order, start at the smallest recovered timestamp and go up by
\* exactly one from record to record.
C1_Contiguous ==
    Repaired =>
        LET pts == OutPts
        IN /\ Len(pts) >= 1
           /\ pts[1] = MinOf(Recovered)
           /\ \A j \in 2..Len(pts) : pts[j] = pts[j - 1] + 1

\* A repair that filled a gap between two of at least three written frames.
C1_Witness ==
    /\ Repaired
    /\ Cardinality(Recovered) >= 2
    /\ w.duplicatedFrames >= 1
    /\ Len(OutPts) >= 3

\* C2: after a successful repair the frame-count field of the output header
\* is the number of records written, originals and copies; and parseIvf on
\* the output catalogues that many frames, dropping none as a duplicate pts.
C2_FrameCount ==
    /\ Repaired =>
        /\ fixed.headerBytes = HeaderSize
        /\ fixed.count = Len(fixed.recs)
        /\ fixed.count = Cardinality(Recovered) + w.duplicatedFrames
    /\ Repaired /\ Reparsed =>
        /\ Len(vmafInfo.frames) = fixed.count
        /\ Len(vmafInfo.ptsIndex) = fixed.count
        /\ index = fixed.count

\* The repaired container was parsed again, and it holds copies.
C2_Witness ==
    /\ Repaired
    /\ Reparsed
    /\ w.duplicatedFrames >= 1
    /\ Len(vmafInfo.frames) >= 3

\* The source record behind the catalogue entry of the recovered timestamp t.
SourceOf(t) == RecordAt(src, MapGet(info.frames, t).position)

\* The output records whose timestamp lies strictly between a and b.
Between(a, b) == {j \in 1..Len(OutRecs) : a < OutRecs[j].pts /\ OutRecs[j].pts < b}

\* For recovered timestamps t1 < ... < tn a successful repair writes
\* t(i+1) - t(i) - 1 copies of frame i between frame i and frame i+1;
\* the copies number (tn - t1 + 1) - n and the frames written tn - t1 + 1.
GapsFilled ==
    Repaired =>
        LET ts == SortAsc(Recovered)
            n == Len(ts)
        IN /\ w.writtenFrames = ts[n] - ts[1] + 1
           /\ w.duplicatedFrames = (ts[n] - ts[1] + 1) - n
           /\ Len(OutRecs) = w.writtenFrames
           /\ \A i \in 1..(n - 1) :
                /\ Cardinality(Between(ts[i], ts[i + 1])) = ts[i + 1] - ts[i] - 1
                /\ \A j \in Between(ts[i], ts[i + 1]) :
                     OutRecs[j].data = SourceOf(ts[i]).data

\* The scenario capture, every frame of which had its clock recognized, as
\* the timestamp its frame header carries: 0, 1, 3, 4.
ScenarioRecognized ==
    /\ call = "fixIvfFrames"
    /\ src = ScenarioFile
    /\ Len(tasks) = 4
    /\ \A j \in 1..Len(tasks) : tasks[j] = "done"
    /\ DOMAIN ptsToRecognized = {0, 1, 3, 4}
    /\ \A k \in DOMAIN ptsToRecognized : ptsToRecognized[k] = k

\* C3: frames at the timestamps 0, 1, 3, 4 are repaired to an output with
\* the timestamps 0, 1, 2, 3, 4, one of them a copy (the instance the claim
\* gives of its rule, one copy per missing timestamp).
C3_Scenario ==
    ScenarioRecognized /\ Repaired =>
        /\ OutPts = <<0, 1, 2, 3, 4>>
        /\ w.duplicatedFrames = 1

\* What the repair writes for the scenario capture.
C3_ScenarioAsBuilt ==
    ScenarioRecognized /\ Repaired =>
        /\ OutPts = <<1, 2, 3, 4>>
        /\ w.duplicatedFrames = 1

\* C4: a record written to fill a gap has the size field and the payload of
\* the last catalogue frame written before it, which are those of that
\* frame in the source, and takes as many bytes; its timestamp is one that
\* no recovered frame has.
C4_CopiesIdentical ==
    LET recs == OutRecs
    IN \A j \in 1..Len(recs) :
        recs[j].pts \notin Recovered =>
            LET before == MaxOf({t \in Recovered : t < recs[j].pts})
                origin == CHOOSE o \in 1..Len(recs) : recs[o].pts = before
            IN /\ \E t \in Recovered : t < recs[j].pts
               /\ origin < j
               /\ recs[j].size = recs[origin].size
               /\ recs[j].data = recs[origin].data
               /\ recs[j].size = SourceOf(before).size
               /\ recs[j].data = SourceOf(before).data
               /\ recs[j].pos - recs[j - 1].pos
                    = recs[origin].size + FrameHeaderSize

\* A repair that copied a frame other than the first one it wrote.
C4_Witness ==
    /\ Repaired
    /\ \E j \in 1..Len(OutRecs) :
        /\ OutRecs[j].pts \notin Recovered
        /\ \E t \in Recovered : t < OutRecs[j].pts /\ t # MinOf(Recovered)

\* Two consecutive recovered timestamps with more than one hour of frames
\* missing between them.
GapOverBound ==
    LET ts == info.ptsIndex
    IN \E i \in 1..(Len(ts) - 1) :
         (ts[i + 1] - ts[i] - 1) * info.num > info.den * SecondsPerHour

\* C5: the repair throws "too many frames missing" exactly when a gap has
\* more than 60 * 60 * frameRate missing timestamps; a gap of exactly that
\* many is filled.
C5_GapBound ==
    /\ error = "too many frames missing" => GapOverBound
    /\ Repaired => ~GapOverBound

\* A gap of exactly 60 * 60 * frameRate timestamps (one, at 1/3600 frames a
\* second) was filled.
C5_Witness ==
    /\ Repaired
    /\ info.num = SecondsPerHour * info.den
    /\ \E i \in 1..(Len(info.ptsIndex) - 1) :
         info.ptsIndex[i + 1] - info.ptsIndex[i] - 1 = 1
    /\ w.duplicatedFrames >= 1

\* A gap of 60 * 60 * frameRate + 1 timestamps made the repair throw.
C5_WitnessThrown ==
    /\ error = "too many frames missing"
    /\ info.num = SecondsPerHour * info.den
    /\ \A i \in 1..(Len(info.ptsIndex) - 1) :
         info.ptsIndex[i + 1] - info.ptsIndex[i] - 1 <= 2

\* fixIvfFrames is past its two checks of the recovered IvfInfo.
Checked ==
    /\ call = "fixIvfFrames"
    /\ error # "Invalid IVF file"
    /\ pc \in {"failed", "repair", "fixed", "done"} \/ fpath = "fixed"

\* C6: without a display name the repair throws "no participant name
\* found", with a display name and an empty catalogue "no frames found";
\* either way the output file has not been created.
C6_EarlyFailures ==
    Checked =>
        /\ info.participantDisplayName = "" =>
             error = "no participant name found" /\ pc = "failed" /\ fixed = NoFile
        /\ info.participantDisplayName # "" /\ info.ptsIndex = <<>> =>
             error = "no frames found" /\ pc = "failed" /\ fixed = NoFile
        /\ error \in {"no participant name found", "no frames found"} =>
             info.participantDisplayName = "" \/ info.ptsIndex = <<>>

\* A repair that threw "no frames found".
C6_Witness ==
    /\ Checked
    /\ error = "no frames found"
    /\ Len(src.recs) >= 1

\* A repair that threw "no participant name found" although frames were recovered.
C6_WitnessNoName ==
    /\ Checked
    /\ error = "no participant name found"
    /\ info.ptsIndex # <<>>

Ascending(seq) == \A i \in 1..(Len(seq) - 1) : seq[i] < seq[i + 1]

Elements(seq) == {seq[i] : i \in 1..Len(seq)}

\* ptsIndex is strictly ascending and holds the keys of frames, each once.
WellIndexed(i) ==
    /\ Ascending(i.ptsIndex)
    /\ Elements(i.ptsIndex) = MapKeys(i.frames)
    /\ Len(i.ptsIndex) = Len(i.frames)

\* C7: in every IvfInfo parseIvf returns, with the recognizer (info of
\* fixIvfFrames) or without it (info of a plain call, vmafInfo), ptsIndex
\* is strictly ascending and is the sorted key set of frames.
C7_PtsIndexSorted == WellIndexed(info) /\ WellIndexed(vmafInfo)

\* parseIvf returned a recovered catalogue whose keys were not inserted in
\* ascending order.
C7_Witness ==
    /\ call = "fixIvfFrames"
    /\ pc = "check"
    /\ Len(info.frames) >= 2
    /\ \E j \in 1..(Len(info.frames) - 1) : info.frames[j].key > info.frames[j + 1].key

\* The same for a parseIvf without recognizer.
C7_WitnessPlain ==
    /\ call = "parseIvf"
    /\ pc = "done"
    /\ Len(info.frames) >= 2
    /\ \E j \in 1..(Len(info.frames) - 1) : info.frames[j].key > info.frames[j + 1].key

\* `frames` is the catalogue the read loop builds, or has built, of File.
ReaderCatalogue == pc \in {"frames", "recognize", "done"}

\* The records of File the read loop is past.
ReadSoFar == {j \in 1..Len(File.recs) : File.recs[j].pos < position}

RECURSIVE SumLengths(_)
SumLengths(S) ==
    IF S = {} THEN 0
    ELSE LET j == CHOOSE x \in S : TRUE
         IN File.recs[j].size + FrameHeaderSize + SumLengths(S \ {j})

\* C8: the catalogue of the read loop has a key for every pts read so far,
\* each key maps to the first record in file order that carried it, and
\* the read position is past every record read, dropped ones included; the
\* loop ends past the last record.
C8_FirstFrameKept ==
    ReaderCatalogue =>
        LET read == ReadSoFar
            recs == File.recs
        IN /\ MapKeys(frames) = {recs[j].pts : j \in read}
           /\ \A e \in 1..Len(frames) :
                LET same == {j \in read : recs[j].pts = frames[e].key}
                    first == CHOOSE j \in same :
                                \A k \in same : recs[j].pos <= recs[k].pos
                IN /\ frames[e].val.position = recs[first].pos
                   /\ frames[e].val.size = recs[first].size + FrameHeaderSize
           /\ position = HeaderSize + SumLengths(read)
           /\ pc # "frames" => read = 1..Len(recs)
           /\ index = Len(frames)

\* A container whose second frame repeats the pts of the first was read to
\* its third frame.
C8_Witness ==
    /\ call = "parseIvf"
    /\ pc = "done"
    /\ Len(src.recs) = 3
    /\ src.recs[1].pts = src.recs[2].pts
    /\ src.recs[3].pts # src.recs[1].pts
    /\ Len(frames) = 2
    /\ MapGet(frames, src.recs[3].pts).position = src.recs[3].pos

\* The reconciliation loop has run.
Reconciled ==
    /\ call = "fixIvfFrames"
    /\ error # "Invalid IVF file"
    /\ pc \in {"check", "failed", "repair", "fixed"} \/ fpath = "fixed"

\* The keys that had a recognition attempt stored, ascending.
Attempted == SortAsc(DOMAIN ptsToRecognized)

\* The key has a usable value after the loop.
Usable(k) == k \in DOMAIN resolved /\ resolved[k] # 0

\* The recognized values 1000, 0, 0, 1200 at the keys 10..13.
ExampleRecognized == (10 :> 1000) @@ (11 :> 0) @@ (12 :> 0) @@ (13 :> 1200)

\* The loop makes 1000, 1001, 1002, 1200 of them.
ExampleFilled ==
    Reconcile(ExampleRecognized)
        = (10 :> 1000) @@ (11 :> 1001) @@ (12 :> 1002) @@ (13 :> 1200)

\* C9: in ascending key order, a key that is not the first, has the
\* sentinel 0 and comes after a key with a usable resolved value v gets
\* v + (key - previous key), also when the previous value was itself
\* filled in; a recognized value is kept.  The values 1000, 0, 0, 1200 at
\* the keys 10..13 become 1000, 1001, 1002, 1200.
C9_ForwardFill ==
    /\ Reconciled =>
         LET keys == Attempted
         IN \A i \in 1..Len(keys) :
               LET k == keys[i]
               IN /\ ptsToRecognized[k] # 0 =>
                       Usable(k) /\ resolved[k] = ptsToRecognized[k]
                  /\ i > 1 /\ ptsToRecognized[k] = 0 /\ Usable(keys[i - 1]) =>
                       /\ Usable(k)
                       /\ resolved[k] = resolved[keys[i - 1]] + (k - keys[i - 1])
    /\ ExampleFilled

\* Two unrecognized keys in a row were filled, the second from the first,
\* over key distances that are not both one.
C9_Witness ==
    /\ Reconciled
    /\ Len(Attempted) = 3
    /\ ptsToRecognized[Attempted[1]] # 0
    /\ ptsToRecognized[Attempted[2]] = 0
    /\ ptsToRecognized[Attempted[3]] = 0
    /\ Attempted[3] - Attempted[2] > 1
    /\ resolved[Attempted[3]] = ptsToRecognized[Attempted[1]] + (Attempted[3] - Attempted[1])

\* The pts the frame of a catalogue entry carries in the source.
OrigKey(val) == RecordAt(src, val.position).pts

\* The attempted keys up to the i-th are all unrecognized.
LeadingRun(i) == \A h \in 1..i : ptsToRecognized[Attempted[h]] = 0

\* The first successfully recognized frame, by its pts in the source.
FirstRecognized == MinOf({k \in DOMAIN ptsToRecognized : ptsToRecognized[k] # 0})

FullyRecognized ==
    /\ Reconciled
    /\ Len(tasks) >= 1
    /\ \A j \in 1..Len(tasks) : tasks[j] # "unrecognized"
    /\ Cardinality(DOMAIN ptsToRecognized) = Len(tasks)

\* The recognized timestamp keys of all frames, as the tasks stored them.
RecognizedKeys == {ptsToRecognized[k] : k \in DOMAIN ptsToRecognized}

\* C11: when every catalogued frame is recognized successfully, the
\* reconciliation changes no value and drops no key, and the key set of the
\* recovered catalogue is the set of the recognized timestamp keys
\* round(frameRate * clockMs / 1000) of all frames.
C11_FullyRecognized ==
    FullyRecognized =>
        /\ resolved = ptsToRecognized
        /\ Recovered = RecognizedKeys

\* The same for recognized keys none of which is 0.
FullyRecognizedNonZero ==
    FullyRecognized /\ 0 \notin RecognizedKeys =>
        /\ resolved = ptsToRecognized
        /\ Recovered = RecognizedKeys

\* Every frame recognized, one of them at a clock value that rounds to the
\* key 0: that frame is not in the recovered catalogue.
C11_RoundsToZero ==
    /\ FullyRecognized
    /\ 0 \in RecognizedKeys
    /\ 0 \notin Recovered

\* C12: parseIvf throws "Invalid IVF file", and returns no IvfInfo, exactly
\* when fewer than 32 bytes of header can be read; with a complete header
\* it returns, whatever follows the header, and a container that holds no
\* complete frame header gives an empty catalogue and an empty ptsIndex.
C12_MalformedContainer ==
    /\ pc # "open" => (error = "Invalid IVF file" <=> File.headerBytes < HeaderSize)
    /\ error = "Invalid IVF file" =>
         pc = "failed" /\ info = NoInfo /\ vmafInfo = NoInfo /\ ret = NoRet
    /\ call = "parseIvf" /\ src.headerBytes = HeaderSize =>
         /\ pc \in {"open", "frames", "done"}
         /\ error = ""
         /\ pc = "done" =>
              /\ info.den = src.den
              /\ info.num = src.num
              /\ src.recs = <<>> => info.frames = <<>> /\ info.ptsIndex = <<>>

\* A container that ends inside its first frame header was parsed.
C12_Witness ==
    /\ call = "parseIvf"
    /\ pc = "done"
    /\ src.headerBytes = HeaderSize
    /\ src.recs = <<>>
    /\ src.tail > 0
    /\ info.frames = <<>>

\* A file one byte short of a header made parseIvf throw.
C12_WitnessShort ==
    /\ call = "parseIvf"
    /\ src.headerBytes = HeaderSize - 1
    /\ error = "Invalid IVF file"

\* ------------------------------------------------ claims on the orchestrator
\* The fixIvfFrames calls made so far, in order.
RepairCalls == SelectSeq(log, LAMBDA e : e.op = "fixIvfFrames")

\* The step is a fixIvfFrames call that threw.
RepairFailed ==
    /\ Len(log') = Len(log) + 1
    /\ log'[Len(log')].op = "fixIvfFrames"
    /\ ~log'[Len(log')].ok

\* C13: a fixIvfFrames call that throws does not end the scan: the first
\* loop passes every file to fixIvfFrames, in the order of the listing, and
\* calculateVmafScore never rejects with the error of a repair; the call
\* that threw leaves both registries as they were.
C13_ScanContinues ==
    /\ [](opc # "idle" =>
            /\ Len(RepairCalls) = scanned
            /\ \A i \in 1..scanned :
                 RepairCalls[i].path = PathJoin(config.vmafPath, files[i])
            /\ opc # "scan" => scanned = Len(files)
            /\ oerror \notin EarlyErrors \cup {"too many frames missing"})
    /\ [][RepairFailed => UNCHANGED <<reference, degraded>>]_vars

\* The scan is through three files; the first call threw before it opened
\* its output, the second in the write loop, the third was registered.
C13_Witness ==
    /\ opc = "pairs"
    /\ scanned = 3
    /\ ~RepairCalls[1].ok /\ RepairCalls[1].other = <<>>
    /\ ~RepairCalls[2].ok /\ RepairCalls[2].other # <<>>
    /\ RepairCalls[3].ok
    /\ Len(reference) + Len(degraded) = 1

\* calculateVmafScore has returned or rejected.
RunEnded == opc \in {"ended", "aborted"}

\* The entries of the log with the given op.
Calls(op) == SelectSeq(log, LAMBDA e : e.op = op)

\* The subprocess, the parse of its log or writeGraph failed for some pair.
ScoringFailed == \E i \in 1..Len(Calls("scored")) : ~Calls("scored")[i].ok

\* The degraded list registered for the i-th participant with a reference.
DegradedOf(i) ==
    IF MapHas(degraded, reference[i].key) THEN MapGet(degraded, reference[i].key)
    ELSE <<>>

\* The pairs the registries give, up to the i-th reference: every degraded
\* path of a participant with the reference of that participant.
RECURSIVE PairsUpTo(_)
PairsUpTo(i) ==
    IF i = 0 THEN <<>>
    ELSE PairsUpTo(i - 1)
         \o [j \in 1..Len(DegradedOf(i)) |->
               [referencePath |-> reference[i].val, degradedPath |-> DegradedOf(i)[j]]]

AllPairs == PairsUpTo(Len(reference))

\* The pairs runVmaf was called with, in order.
ScoredPairs ==
    [k \in 1..Len(Calls("runVmaf")) |->
       [referencePath |-> Calls("runVmaf")[k].other,
        degradedPath |-> Calls("runVmaf")[k].path]]

\* The report keys of the scorings that succeeded.
SucceededKeys ==
    {ReportKey(Calls("scored")[k].path) :
        k \in {h \in 1..Len(Calls("scored")) : Calls("scored")[h].ok}}

\* C14: when the scoring of a pair fails in the subprocess or in the parse
\* of its metrics, the run still ends with the report written: runVmaf was
\* called for every pair of every participant, and the report holds the
\* entries of the scorings that succeeded.
C14_ScoringFailureContained ==
    RunEnded /\ ScoringFailed =>
        /\ opc = "ended"
        /\ ScoredPairs = AllPairs
        /\ MapKeys(report) = SucceededKeys
        /\ written = <<report>>

\* No output path stands twice in the degraded list of a participant.
DistinctOutputs ==
    \A i \in 1..Len(degraded) :
        \A j, k \in 1..Len(degraded[i].val) :
            j # k => degraded[i].val[j] # degraded[i].val[k]

\* The same for runs that keep the files or registered no path twice.
ScoringFailureContainedDistinct ==
    RunEnded /\ (config.vmafKeepIntermediateFiles \/ DistinctOutputs) =>
        /\ opc = "ended"
        /\ ScoredPairs = AllPairs
        /\ MapKeys(report) = SucceededKeys
        /\ written = <<report>>

\* Two captures of one receiver gave the same output path; the scoring of
\* the first failed, its file was unlinked, and the unlink after the second
\* call ended the run without a report.
C14_Aborted ==
    /\ opc = "aborted"
    /\ ScoringFailed
    /\ written = <<>>
    /\ Len(AllPairs) = 2
    /\ AllPairs[1] = AllPairs[2]

\* The first loop of calculateVmafScore is through.
Scanned == opc \notin {"idle", "scan"}

\* The capture is a send-side one: the leading token of its name, what
\* stands before the first "_", ends in -send.
SendSide(path) == EndsWith(FirstPart(Basename(path), Underscore), SendMarker)

\* The repairs that returned, for send-side or receive-side captures that
\* came to the display name `name`: their places in the scan.
Returned(name, send) ==
    {i \in 1..Len(RepairCalls) :
        /\ RepairCalls[i].ok
        /\ RepairCalls[i].name = name
        /\ SendSide(RepairCalls[i].path) = send}

\* The output paths of the repairs at the places S, in scan order.
OutputsOf(S) == [k \in 1..Cardinality(S) |-> RepairCalls[SortAsc(S)[k]].other]

\* The registries hold, for every display name, the output of the last
\* send-side repair that returned and the outputs of all receive-side
\* repairs that returned, in scan order.
ByRole ==
    /\ \A i, j \in 1..Len(reference) : i # j => reference[i].key # reference[j].key
    /\ \A i, j \in 1..Len(degraded) : i # j => degraded[i].key # degraded[j].key
    /\ \A name \in {Alice, Bob} :
        /\ MapHas(reference, name) <=> Returned(name, TRUE) # {}
        /\ MapHas(reference, name) =>
             MapGet(reference, name) = RepairCalls[MaxOf(Returned(name, TRUE))].other
        /\ MapHas(degraded, name) <=> Returned(name, FALSE) # {}
        /\ MapHas(degraded, name) =>
             MapGet(degraded, name) = OutputsOf(Returned(name, FALSE))
    /\ MapKeys(reference) \cup MapKeys(degraded) \subseteq {Alice, Bob}

\* C15: after the scan the reference registry holds one path per display
\* name, the output of the last send-side capture whose repair returned with
\* that name, and the degraded registry holds per display name the outputs
\* of all receive-side captures whose repair returned, in scan order.
C15_Registries == Scanned => ByRole

\* The same for a vmafPath that does not hold the text recv-by.
RegistriesByRole == Scanned /\ ~Includes(config.vmafPath, RecvBy) => ByRole

\* Under a vmafPath that holds recv-by, a send-side capture was repaired and
\* its output stands in the degraded registry.
C15_SendAsDegraded ==
    /\ Scanned
    /\ Returned(Alice, TRUE) # {}
    /\ ~MapHas(reference, Alice)
    /\ MapHas(degraded, Alice)

\* The scoring of the pair (r, d) has finished before the k-th entry of the
\* log: the subprocess answered, or runVmaf threw before it ran it.
AttemptFinished(r, d, k) ==
    \E h \in 1..(k - 1) :
        /\ log[h].path = d
        /\ log[h].other = r
        /\ log[h].op = "scored" \/ (log[h].op = "runVmaf" /\ ~log[h].ok)

\* The file at path p was unlinked before the k-th entry of the log.  (No
\* repair runs after the scan, so it is not there again.)
UnlinkedBefore(p, k) ==
    \E u \in 1..(k - 1) : log[u].op = "unlink" /\ log[u].ok /\ log[u].path = p

\* Each unlink of a degraded file comes right after the end of a scoring of
\* that file, and each unlink of a reference file after the end of the
\* scorings with all degraded files of its participant.
UnlinkedAfterScoring ==
    \A u \in 1..Len(log) :
        log[u].op = "unlink" /\ log[u].ok =>
            /\ (\E i \in 1..Len(degraded) :
                  \E j \in 1..Len(degraded[i].val) : degraded[i].val[j] = log[u].path)
                 => /\ u > 1
                    /\ log[u - 1].path = log[u].path
                    /\ log[u - 1].op = "scored"
                         \/ (log[u - 1].op = "runVmaf" /\ ~log[u - 1].ok)
            /\ \A i \in 1..Len(reference) :
                 reference[i].val = log[u].path =>
                    \A j \in 1..Len(DegradedOf(i)) :
                        AttemptFinished(reference[i].val, DegradedOf(i)[j], u)

\* runVmaf was never called on a file that had been unlinked.
ScoredWhileThere ==
    \A k \in 1..Len(log) :
        log[k].op = "runVmaf" =>
            ~UnlinkedBefore(log[k].path, k) /\ ~UnlinkedBefore(log[k].other, k)

\* C16: when the files are not kept, a degraded file is unlinked only after
\* its own scoring has finished, a reference file only after the scorings
\* with all its degraded partners have finished, and no scoring is started
\* on a file that was unlinked before.
C16_DeleteAfterScoring ==
    ~config.vmafKeepIntermediateFiles => UnlinkedAfterScoring /\ ScoredWhileThere

\* The same for runs that registered no output path twice.
DeleteAfterScoringDistinct ==
    ~config.vmafKeepIntermediateFiles /\ DistinctOutputs =>
        UnlinkedAfterScoring /\ ScoredWhileThere

\* The order of the unlinks alone, whatever was registered.
DeleteOrder == UnlinkedAfterScoring

\* runVmaf was called with a degraded path whose file the finally block of
\* an earlier scoring had unlinked.
C16_ScoredAfterUnlink ==
    \E k \in 1..Len(log) :
        /\ log[k].op = "runVmaf"
        /\ ~log[k].ok
        /\ UnlinkedBefore(log[k].path, k)

\* The outputs of the repairs that returned.
RepairedFiles == {RepairCalls[i].other : i \in {h \in 1..Len(RepairCalls) : RepairCalls[h].ok}}

\* C17: when the files are not kept, no output of a repair that returned is
\* on the disk once calculateVmafScore has returned, be it a degraded stream
\* of a participant without reference or a reference without degraded
\* partner.
C17_AllDeleted ==
    opc = "ended" /\ ~config.vmafKeepIntermediateFiles =>
        \A p \in RepairedFiles : ~OnDisk(disk, p)

\* What the second loop unlinks: every reference, and the degraded files of
\* the participants that have a reference.
PairedFilesDeleted ==
    opc = "ended" /\ ~config.vmafKeepIntermediateFiles =>
        \A i \in 1..Len(reference) :
            /\ ~OnDisk(disk, reference[i].val)
            /\ \A j \in 1..Len(DegradedOf(i)) : ~OnDisk(disk, DegradedOf(i)[j])

\* The run has returned, the files were not to be kept, and the degraded
\* stream of a participant without reference is still on the disk.
C17_DegradedLeft ==
    /\ opc = "ended"
    /\ ~config.vmafKeepIntermediateFiles
    /\ ~Includes(config.vmafPath, RecvBy)
    /\ \E i \in 1..Len(degraded) :
        /\ ~MapHas(reference, degraded[i].key)
        /\ OnDisk(disk, degraded[i].val[1])
        /\ disk[degraded[i].val[1]].complete

\* s is a, then marker, then b, and marker does not begin earlier in s.
SplitAt(s, marker, a, b) ==
    /\ s = a \o marker \o b
    /\ \A h \in 1..Len(a) : ~OccursAt(s, marker, h)

\* The names stated for the output of the capture `path` that came
\* to the display name `name`: name.ivf for a leading token that ends in
\* -send, name_recv-by_token.ivf for any other, with the token's -recv
\* taken out.
NamedAsClaimed(path, name, out) ==
    LET base == Basename(path)
        token == IF \E i \in 1..Len(base) : base[i] = "_"
                 THEN SubSeq(base, 1, (CHOOSE i \in 1..Len(base) :
                                          base[i] = "_"
                                          /\ \A h \in 1..(i - 1) : base[h] # "_") - 1)
                 ELSE base
        sendSide == Len(token) >= 5 /\ SubSeq(token, Len(token) - 4, Len(token)) = SendMarker
    IN IF sendSide
       THEN Basename(out) = name \o IvfExt
       ELSE \E k \in 0..Len(token) :
              LET a == SubSeq(token, 1, k)
              IN \/ /\ ~Includes(token, RecvMarker)
                    /\ k = Len(token)
                    /\ Basename(out) = name \o <<"_">> \o RecvBy \o <<"_">> \o a \o IvfExt
                 \/ /\ SplitAt(token, RecvMarker, a,
                               SubSeq(token, k + Len(RecvMarker) + 1, Len(token)))
                    /\ Basename(out) =
                         name \o <<"_">> \o RecvBy \o <<"_">> \o a
                              \o SubSeq(token, k + Len(RecvMarker) + 1, Len(token))
                              \o IvfExt

\* Capture names with other leading tokens: one without marker (cam), one
\* with text behind the recv marker (bob-recv2), and a name without "_",
\* whose leading token is the whole name (alice-send.ivf).
OtherNames ==
    {<<"c", "a", "m", "_", "1">> \o IvfExt,
     <<"b", "o", "b">> \o RecvMarker \o <<"2", "_", "y">> \o IvfExt,
     <<"a", "l", "i", "c", "e">> \o SendMarker \o IvfExt}

\* The outputs for the other leading tokens are named as claimed.
OtherNamesAsClaimed ==
    \A n \in OtherNames, name \in {Alice, Bob} :
        NamedAsClaimed(n, name, OutFilePath(n, VmafDir, name))

\* The names of the scenario.
ScenarioNames ==
    /\ Basename(OutFilePath(AliceSendX, VmafDir, Alice))
         = <<"A", "l", "i", "c", "e", ".", "i", "v", "f">>
    /\ Basename(OutFilePath(BobRecvY, VmafDir, Alice))
         = <<"A", "l", "i", "c", "e", "_", "r", "e", "c", "v", "-", "b", "y", "_",
             "b", "o", "b", ".", "i", "v", "f">>

\* C18: every output fixIvfFrames opened is named after the leading token
\* of its source and the display name, as above, in outPath, and so are the
\* outputs for other leading tokens; the captures alice-send_x.ivf and
\* bob-recv_y.ivf, both come to Alice, give Alice.ivf and
\* Alice_recv-by_bob.ivf.
C18_OutputName ==
    /\ OtherNamesAsClaimed
    /\ ScenarioNames
    /\ \A i \in 1..Len(RepairCalls) :
         RepairCalls[i].other # <<>> =>
            /\ NamedAsClaimed(RepairCalls[i].path, RepairCalls[i].name, RepairCalls[i].other)
            /\ RepairCalls[i].other = PathJoin(OutPath, Basename(RepairCalls[i].other))

\* The two captures of the scenario were repaired and came to Alice.
C18_Witness ==
    /\ Scanned
    /\ \E i, j \in 1..Len(RepairCalls) :
        /\ RepairCalls[i].ok /\ RepairCalls[j].ok
        /\ RepairCalls[i].name = Alice /\ RepairCalls[j].name = Alice
        /\ Basename(RepairCalls[i].path) = AliceSendX
        /\ Basename(RepairCalls[j].path) = BobRecvY
        /\ Basename(RepairCalls[i].other) = Alice \o IvfExt
        /\ Basename(RepairCalls[j].other)
             = Alice \o <<"_">> \o RecvBy \o <<"_", "b", "o", "b">> \o IvfExt

\* The scoring subprocess of a pair is running, on a reference whose header
\* gives a frame rate.
Scoring == opc = "ffmpeg" /\ disk[scoring.referencePath].den # 0

\* C19: the -ss value of the scoring command is (first timestamp of the
\* degraded file - first timestamp of the reference file) / frameRate of the
\* reference, in seconds: first timestamps 100 and 130 at 30 frames a second
\* give 1.
C19_Offset ==
    Scoring =>
        LET ref == disk[scoring.referencePath]
            deg == disk[scoring.degradedPath]
        IN /\ scoring.ss.d # 0
           /\ scoring.ss.n * ref.den = (deg.startPts - ref.startPts) * ref.num * scoring.ss.d
           /\ ref.startPts = 100 /\ deg.startPts = 130 /\ ref.den = 30 * ref.num =>
                scoring.ss.n = 1 * scoring.ss.d

\* The pair of the scenario is being scored; the degraded file has another
\* frame rate than the reference.
C19_Witness ==
    /\ Scoring
    /\ disk[scoring.referencePath].startPts = 100
    /\ disk[scoring.degradedPath].startPts = 130
    /\ disk[scoring.referencePath].den = 30
    /\ disk[scoring.referencePath].num = 1
    /\ disk[scoring.degradedPath].den = 15
    /\ scoring.ss = [n |-> 30, d |-> 30]

\* The entries of the log that fall into the window of the bucket at x.
Window(x) ==
    {i \in 1..Len(vmafLog) : vmafLog[i].frameNum \in x..(x + frameRate - 1)}

RECURSIVE SumVmaf(_)
SumVmaf(W) ==
    IF W = {} THEN 0
    ELSE LET i == CHOOSE i \in W : TRUE
         IN vmafLog[i].vmaf + SumVmaf(W \ {i})

\* The buckets start every frameRate frames from frame 0 on and take in
\* every frame of the log.
Grouped ==
    /\ \A k \in 1..Len(prev) : prev[k].x = (k - 1) * frameRate
    /\ \A i \in 1..Len(vmafLog) : \E k \in 1..Len(prev) : i \in Window(prev[k].x)

\* The value of the bucket is the mean of the scores in its window.
IsMean(b) == b.y.n * Cardinality(Window(b.x)) = SumVmaf(Window(b.x)) * b.y.d

\* C20: the reduce of writeGraph groups consecutive frames into windows of
\* frameRate frames, and the value of every bucket, whatever number of frames
\* fell into it, is the mean of the scores of the frames of its window.
C20_BucketMeans ==
    gpc = "rendered" => Grouped /\ \A k \in 1..Len(prev) : IsMean(prev[k])

\* As built: the value of a bucket is the sum of the scores of its window
\* over frameRate, which is their mean for a window of frameRate frames.
BucketSums ==
    gpc = "rendered" =>
        /\ Grouped
        /\ \A k \in 1..Len(prev) :
            /\ prev[k].y = [n |-> SumVmaf(Window(prev[k].x)), d |-> frameRate]
            /\ Cardinality(Window(prev[k].x)) = frameRate => IsMean(prev[k])

\* Three frames of score 90 at 2 frames a second: the last bucket holds one
\* frame and has the value 45.
C20_PartialBucket ==
    /\ gpc = "rendered"
    /\ frameRate = 2
    /\ Len(vmafLog) = 3
    /\ \A i \in 1..3 : vmafLog[i].vmaf = 90
    /\ Len(prev) = 2
    /\ prev[1] = [x |-> 0, y |-> [n |-> 180, d |-> 2]]
    /\ prev[2] = [x |-> 2, y |-> [n |-> 90, d |-> 2]]
    /\ ~IsMean(prev[2])

\* C21: a successful repair returns as startPts the smallest recovered
\* timestamp, which is the timestamp in the first frame record of the output.
C21_StartTimestamp ==
    Repaired =>
        LET first == OutRecs[1]
        IN /\ ret.startPts = MinOf(Recovered)
           /\ first.pts = ret.startPts
           /\ first.pos = HeaderSize

\* A repair of two or more recovered frames whose smallest timestamp was not
\* the first to go into the recovered catalogue.
C21_Witness ==
    /\ Repaired
    /\ Len(info.frames) >= 2
    /\ info.frames[1].key # MinOf(Recovered)
    /\ ret.startPts = MinOf(Recovered)
    /\ OutRecs[1].pts = ret.startPts

\* The chunk of the j-th item (1-based), counted from 0.
ChunkOf(j) == (j - 1) \div NumWorkers

\* The recognizeFrame calls that were started and have not settled.
InFlight == {j \in 1..Len(tasks) : tasks[j] \in {"clock", "name"}}

\* C22: in chunkedPromiseAll no task of a chunk is started before every task
\* of the chunks before it has settled, and the tasks in flight are never
\* more than the chunk size.
C22_ChunksSequential ==
    /\ \A j, k \in 1..Len(tasks) :
         ChunkOf(j) < ChunkOf(k) /\ tasks[k] # "pending" => Settled(tasks[j])
    /\ Cardinality(InFlight) <= NumWorkers
    /\ \A j \in 1..Len(tasks) : tasks[j] = "pending" <=> j > started

\* The second chunk is in flight, full, behind a first chunk of which one
\* task was rejected.
C22_Witness ==
    /\ pc = "recognize"
    /\ Len(tasks) = 2 * NumWorkers
    /\ Cardinality(InFlight) = NumWorkers
    /\ \A j \in InFlight : ChunkOf(j) = 1
    /\ \E j \in 1..NumWorkers : tasks[j] = "rejected"
    /\ \E j \in 1..NumWorkers : tasks[j] # "rejected"

\* The promise of the item at position k (0-based) has the state st.
Promised(k, st) == promises[k + 1] = st

\* C23: in chunkedPromiseAll a rejected task does not keep its siblings
\* from completing, the later chunks from being started or the call from
\* returning, and results holds at position k the value of the task of
\* item k whenever that task fulfilled, in whatever order the tasks settled.
C23_FailureContained ==
    /\ \A k \in 0..(Len(items) - 1) :
         /\ Promised(k, "fulfilled") => results[k + 1] = F(items[k + 1], k)
         /\ ~Promised(k, "fulfilled") => results[k + 1] = Hole
         /\ Promised(k, "awaiting") => ENABLED Fulfil(k - poolIndex)
    /\ ppc = "loop" /\ poolIndex < Len(items) => ENABLED MapChunk
    /\ ppc = "returned" =>
         /\ Len(results) = Len(items)
         /\ \A k \in 0..(Len(items) - 1) :
              Promised(k, "fulfilled") \/ Promised(k, "rejected")

\* Four items in chunks of two: the second item settled before the first,
\* which was rejected, the fourth before the third, and the call returned
\* with the three values in their places.
C23_Witness ==
    /\ ppc = "returned"
    /\ Len(items) = 4
    /\ chunkSize = 2
    /\ settledOrder = <<1, 0, 3, 2>>
    /\ Promised(0, "rejected")
    /\ results[1] = Hole
    /\ \A k \in 1..3 : results[k + 1] = F(items[k + 1], k)

\* chunkedPromiseAll has settled every recognizeFrame call and the
\* reconciliation has not begun.
AllSettled ==
    /\ pc = "recognize"
    /\ started = Len(tasks)
    /\ \A j \in 1..Len(tasks) : Settled(tasks[j])

\* No error of a recognizeFrame call has become the error of the call:
\* parseIvf goes on, and what fixIvfFrames throws is one of its own errors.
NotAborted ==
    /\ pc = "recognize" => error = ""
    /\ error \in {"", "Invalid IVF file", "no participant name found",
                  "no frames found", "too many frames missing"}

\* C24: a recognizeFrame call that threw does not abort the recovery, and
\* its frame has the sentinel 0 as recognized value, so that reconciliation
\* takes it like a frame of low confidence.
C24_FailureUnrecognized ==
    /\ NotAborted
    /\ AllSettled =>
         \A j \in 1..Len(tasks) :
            tasks[j] = "rejected" =>
                /\ Item(j) \in DOMAIN ptsToRecognized
                /\ ptsToRecognized[Item(j)] = 0

\* The values a recognized clock may be stored as.
ClockPts == {StoredPts(data, src.den, src.num) : data \in ClockData(src.den, src.num)}

\* As built: the recovery goes on; a call that threw before it stored
\* anything has left no entry for its frame, and a call that threw in the
\* identity recognition has left the value of the clock.
FailureLeavesNoEntry ==
    /\ NotAborted
    /\ AllSettled =>
         \A j \in 1..Len(tasks) :
            tasks[j] = "rejected" /\ Item(j) \in DOMAIN ptsToRecognized =>
                ptsToRecognized[Item(j)] \in ClockPts

\* As built: a frame without entry is not in the recovered catalogue.
FailureDropsFrame ==
    [][AllSettled /\ pc' # "recognize" =>
         \A j \in 1..Len(tasks) :
            Item(j) \notin DOMAIN ptsToRecognized =>
                \A e \in 1..Len(frames') : frames'[e].val # frames[j].val]_vars

\* Two frames at the timestamps 0 and 1: the first was recognized, the call
\* for the second threw, and the second is not in the recovered catalogue,
\* where a second frame of low confidence is filled in from the first.
C24_ThrownDropped ==
    /\ Reconciled
    /\ Len(tasks) = 2
    /\ tasks[1] = "done"
    /\ tasks[2] = "rejected"
    /\ DOMAIN ptsToRecognized = {0}
    /\ ptsToRecognized[0] # 0
    /\ Len(info.frames) = 1
    /\ Len(RecognizedFrames(<<[key |-> 0, val |-> 0], [key |-> 1, val |-> 1]>>,
                            Reconcile(RecSet(ptsToRecognized, 1, 0)))) = 2

\* v is the rational a / b (a >= 0, b > 0) rounded to the nearest integer,
\* a half going up.
IsRounded(v, a, b) == 2 * b * v <= 2 * a + b /\ 2 * a + b < 2 * b * (v + 1)

\* C25: the value stored for a frame is the sentinel 0 whenever the
\* confidence of the clock recognition is below 75 or the parsed clock is
\* absent or not positive, and then the call does not throw; otherwise it is
\* frameRate * clock / 1000 rounded.
C25_RecognizedValue ==
    answer # NoAnswer =>
        LET stored == ptsToRecognized[Item(answer.j)]
        IN /\ pc = "recognize"
           /\ error = ""
           /\ IF answer.confidence < 75 \/ answer.time <= 0
              THEN stored = 0 /\ tasks[answer.j] = "unrecognized"
              ELSE IsRounded(stored, src.den * answer.time, src.num * 1000)

\* A clock of confidence 75 was stored as its timestamp, in a batch where a
\* frame before it was stored as unrecognized.
C25_Witness ==
    /\ answer.j = 2
    /\ answer.confidence = 75
    /\ answer.time > 0
    /\ ptsToRecognized[Item(2)] = 3
    /\ tasks[1] = "unrecognized"
    /\ ptsToRecognized[Item(1)] = 0

\* The identity job of task j answers in this step.
IdentityAnswers(j) == tasks[j] = "name" /\ tasks'[j] = "done"

\* The clock job of task j answers in this step with a recognized clock.
ClockRecognized(j) == tasks[j] = "clock" /\ tasks'[j] \in {"name", "done"}

\* C26: the answer of the identity recognition becomes the display name
\* only if its confidence is above 75 and its trimmed text is not empty;
\* after any other answer the name is unset, and a frame whose clock is
\* recognized while the name is unset tries the identity recognition again.
C26_NameAccepted ==
    [][\A j \in 1..Len(tasks) :
          /\ IdentityAnswers(j) =>
                /\ identity'.j = j
                /\ participantDisplayName' =
                      IF identity'.confidence > 75 /\ identity'.text # ""
                      THEN identity'.text ELSE ""
          /\ ClockRecognized(j) /\ participantDisplayName = "" =>
                tasks'[j] = "name"]_vars

\* Three frames in chunks of two: the clocks of the first chunk were
\* recognized and its identity attempt was not accepted; the frame of the
\* second chunk tried again and gave the name.
C26_Witness ==
    /\ pc = "recognize"
    /\ Len(tasks) = 3
    /\ NumWorkers = 2
    /\ tasks = <<"done", "done", "done">>
    /\ \A j \in 1..3 : ptsToRecognized[Item(j)] # 0
    /\ identity.j = 3
    /\ identity.confidence > 75
    /\ participantDisplayName = identity.text
    /\ participantDisplayName # ""

\* The places in the catalogue `cat` of the frames that resolve to the
\* timestamp t under m.
ResolvingTo(cat, m, t) == {j \in 1..Len(cat) : RecGet(m, cat[j].key) = t}

\* The recovered catalogue `rec` holds under each resolved timestamp other
\* than 0 the record of the frame picked by `pick` among the frames of `cat`
\* that resolve to it, and nothing else.
Rekeyed(cat, m, rec, pick(_)) ==
    /\ \A e \in 1..Len(rec) :
         /\ rec[e].key # 0
         /\ ResolvingTo(cat, m, rec[e].key) # {}
         /\ rec[e].val = cat[pick(ResolvingTo(cat, m, rec[e].key))].val
    /\ \A j \in 1..Len(cat) :
         RecGet(m, cat[j].key) # 0 => MapHas(rec, RecGet(m, cat[j].key))
    /\ \A e, g \in 1..Len(rec) : rec[e].key = rec[g].key => e = g

\* The step in which the catalogue is replaced by the recovered one.
Recovering == AllSettled /\ pc' # "recognize"

\* C27: the recovered catalogue holds each original record under its
\* resolved timestamp, none under the sentinel 0, and of two frames that
\* resolve to the same timestamp the earlier one.
C27_EarlierRetained ==
    [][Recovering => Rekeyed(frames, resolved', frames', MinOf)]_vars

\* As built: of the frames that resolve to the same timestamp the last one
\* is in the recovered catalogue.
LaterRetained ==
    [][Recovering => Rekeyed(frames, resolved', frames', MaxOf)]_vars

\* Two frames at the timestamps 0 and 1 were both recognized as timestamp
\* 3, and the recovered catalogue holds the second one.
C27_LaterFrameKept ==
    /\ Reconciled
    /\ DOMAIN resolved = {0, 1}
    /\ resolved[0] = 3
    /\ resolved[1] = 3
    /\ Len(info.frames) = 1
    /\ info.frames[1].key = 3
    /\ info.frames[1].val.index = 1

\* The entry e of the reader's catalogue describes the record of File that
\* starts at its position: the key is its pts, the length its payload size
\* and the 12 bytes of the frame header, the index the place of the entry.
DescribesRecord(e) ==
    LET v == frames[e].val
    IN /\ HasRecordAt(File, v.position)
       /\ RecordAt(File, v.position).pts = frames[e].key
       /\ v.size = RecordAt(File, v.position).size + 12
       /\ v.index = e - 1

\* C28 as stated: every entry describes its record, the indexes are 0..n-1
\* in file order, and the entries tile the file from offset 32: the first
\* one starts there and each next one where the one before it ends.
C28_RecordsTile ==
    ReaderCatalogue =>
        /\ \A e \in 1..Len(frames) : DescribesRecord(e)
        /\ Len(frames) >= 1 => frames[1].val.position = 32
        /\ \A e \in 2..Len(frames) :
             frames[e].val.position = frames[e - 1].val.position + frames[e - 1].val.size

\* C28: every entry of the reader's catalogue describes its record, the
\* indexes are 0..n-1 in file order with none used up by a dropped
\* duplicate, the first entry starts at offset 32, the entries do not
\* overlap, and between the end of an entry and the start of the next lie
\* only records dropped as duplicates of an earlier entry.
C28_CatalogueRecords ==
    ReaderCatalogue =>
        /\ \A e \in 1..Len(frames) : DescribesRecord(e)
        /\ Len(frames) >= 1 => frames[1].val.position = 32
        /\ \A e \in 2..Len(frames) :
             LET end == frames[e - 1].val.position + frames[e - 1].val.size
                 start == frames[e].val.position
             IN /\ end <= start
                /\ \A j \in 1..Len(File.recs) :
                     end <= File.recs[j].pos /\ File.recs[j].pos < start =>
                        \E g \in 1..(e - 1) : frames[g].key = File.recs[j].pts

\* A container of three frames whose second frame repeats the pts of the
\* first: the catalogue has two entries with the indexes 0 and 1, and the
\* second entry starts behind the dropped record.
C28_Witness ==
    /\ call = "parseIvf"
    /\ pc = "done"
    /\ Len(src.recs) = 3
    /\ src.recs[1].pts = src.recs[2].pts
    /\ src.recs[3].pts # src.recs[1].pts
    /\ Len(frames) = 2
    /\ frames[1].val = [index |-> 0, position |-> 32, size |-> src.recs[1].size + 12]
    /\ frames[2].val.index = 1
    /\ frames[2].val.position = src.recs[3].pos
    /\ frames[2].val.position > frames[1].val.position + frames[1].val.size

\* The runVmaf calls made for the degraded path d.
ScoringsOf(d) == {k \in 1..Len(ScoredPairs) : ScoredPairs[k].degradedPath = d}

\* Every degraded stream registered for a participant that has a reference
\* was scored once and against that reference, nothing else was scored, and
\* a run that returned has a report with the keys of the scorings that
\* succeeded.
EachScoredOnce ==
    /\ \A i \in 1..Len(reference) :
         \A j \in 1..Len(DegradedOf(i)) :
            /\ Cardinality(ScoringsOf(DegradedOf(i)[j])) = 1
            /\ \A k \in ScoringsOf(DegradedOf(i)[j]) :
                 ScoredPairs[k].referencePath = reference[i].val
    /\ \A k \in 1..Len(ScoredPairs) :
         \E i \in 1..Len(reference) :
            /\ ScoredPairs[k].referencePath = reference[i].val
            /\ \E j \in 1..Len(DegradedOf(i)) :
                 ScoredPairs[k].degradedPath = DegradedOf(i)[j]
    /\ opc = "ended" => MapKeys(report) = SucceededKeys /\ written = <<report>>

\* C29: when calculateVmafScore is through, it has scored each degraded
\* stream of a participant that has a reference exactly once, against that
\* reference, and no degraded stream of a participant without reference;
\* the keys of the report are the base names of the degraded streams whose
\* scoring succeeded.
C29_ScoredOnce == RunEnded => EachScoredOnce

\* The same for runs that registered no output path twice.
ScoredOnceDistinct == RunEnded /\ DistinctOutputs => opc = "ended" /\ EachScoredOnce

\* The files are kept; two captures of one receiver gave the same output
\* path, which was scored twice, and the report has one key for both.
C29_ScoredTwice ==
    /\ opc = "ended"
    /\ config.vmafKeepIntermediateFiles
    /\ Len(AllPairs) = 2
    /\ AllPairs[1] = AllPairs[2]
    /\ ScoredPairs = AllPairs
    /\ \A k \in 1..2 : Calls("scored")[k].ok
    /\ Len(report) = 1

\* The texts the identity recognition may give with a confidence above 75.
AcceptedTexts == {d.text : d \in {x \in NameData : x.confidence > 75 /\ x.text # ""}}

\* C30: the display name parseIvf returns from a recovery, and fixIvfFrames
\* with it, is empty or a text the identity recognition gave with a
\* confidence above 75, never the placeholder "-" of a recognition in
\* flight, also when that recognition threw.
C30_NameReturned ==
    /\ Reconciled => info.participantDisplayName \in {""} \cup AcceptedTexts
    /\ Repaired => ret.participantDisplayName \in AcceptedTexts

\* No recognizeFrame call threw in the identity recognition: every call
\* that was rejected has left no entry for its frame.
NoIdentityThrow ==
    Cardinality({j \in 1..Len(tasks) : tasks[j] = "rejected"})
        = Len(tasks) - Cardinality(DOMAIN ptsToRecognized)

\* As built: the same when no identity recognition threw.
NameReturnedNoThrow ==
    /\ Reconciled /\ NoIdentityThrow =>
         info.participantDisplayName \in {""} \cup AcceptedTexts
    /\ Repaired /\ NoIdentityThrow => ret.participantDisplayName \in AcceptedTexts

\* The identity recognition of the one frame threw, and fixIvfFrames has
\* returned the placeholder as display name.
C30_PlaceholderReturned ==
    /\ Repaired
    /\ tasks = <<"rejected">>
    /\ info.participantDisplayName = "-"
    /\ ret.participantDisplayName = "-"

\* The recognizeFrame calls that await the identity worker.
AwaitingName == {j \in 1..Len(tasks) : tasks[j] = "name"}

\* A display name has been accepted.
NameSet == participantDisplayName \notin {"", "-"}

\* C31: in the recovery of one file (the recognizer pass of one parseIvf
\* call) at most one identity recognition is in flight at any time, and
\* once a display name has been accepted no further identity recognition is
\* started and the name is not changed.
C31_OneIdentityCall ==
    /\ [](Cardinality(AwaitingName) <= 1)
    /\ [][pc = "recognize" /\ NameSet =>
            /\ participantDisplayName' = participantDisplayName
            /\ AwaitingName' = {}]_vars

\* The name was accepted in a first chunk of two frames, and a clock of the
\* second chunk has been recognized after it without an identity call.
C31_Witness ==
    /\ pc = "recognize"
    /\ NumWorkers = 2
    /\ Len(tasks) = 3
    /\ NameSet
    /\ tasks[1] = "done"
    /\ tasks[2] = "done"
    /\ tasks[3] = "done"
    /\ \A k \in DOMAIN ptsToRecognized : ptsToRecognized[k] # 0

\* The clock recognition of task j succeeded: the call went past line 138
\* and stored the key of line 148.
ClockSucceeded(j) ==
    \/ tasks[j] \in {"name", "done"}
    \/ tasks[j] = "rejected" /\ Item(j) \in DOMAIN ptsToRecognized

\* The frame of task j is in the recovered catalogue of the next state under
\* the key its clock recognition stored, which the reconciliation kept.
KeptUnderOwnKey(j) ==
    LET k == Item(j)
        own == ptsToRecognized[k]
    IN /\ k \in DOMAIN resolved'
       /\ resolved'[k] = own
       /\ MapHas(frames', own)
       /\ MapGet(frames', own) = frames[j].val

\* C32: a frame whose clock recognition succeeded is never treated as
\* unrecognized: the reconciliation neither interpolates nor drops it and
\* the recovered catalogue holds it under its own key
\* round(frameRate * clockMs / 1000), also when that key is 0.
C32_RecognizedKept ==
    [][Recovering =>
         \A j \in 1..Len(tasks) : ClockSucceeded(j) => KeptUnderOwnKey(j)]_vars

\* As built: the same for a frame whose key is not 0 and is not the resolved
\* timestamp of a later frame.
RecognizedKeptUnlessZero ==
    [][Recovering =>
         \A j \in 1..Len(tasks) :
            /\ ClockSucceeded(j)
            /\ ptsToRecognized[Item(j)] # 0
            /\ \A h \in (j + 1)..Len(tasks) :
                 RecGet(resolved', Item(h)) # ptsToRecognized[Item(j)]
            => KeptUnderOwnKey(j)]_vars

\* As built: a successful recognition that stored the key 0 is taken for
\* the sentinel, and the frame is not in the recovered catalogue under 0.
ZeroKeyUnrecognized ==
    [][Recovering =>
         \A j \in 1..Len(tasks) :
            ClockSucceeded(j) /\ ptsToRecognized[Item(j)] = 0 =>
               ~MapHas(frames', 0)]_vars

\* Two frames at 30 frames a second: the clock of the first was recognized
\* as 1 ms, which is the key 0, the second was not recognized; the
\* recovered catalogue is empty.
C32_ZeroKeyDropped ==
    /\ Reconciled
    /\ src.den = 30
    /\ tasks = <<"done", "unrecognized">>
    /\ \A k \in DOMAIN ptsToRecognized : ptsToRecognized[k] = 0
    /\ info.frames = <<>>

\* The resolved timestamps are strictly increasing along the original
\* container timestamps.
ResolvedIncreasing ==
    \A k, l \in DOMAIN resolved : k < l => resolved[k] < resolved[l]

\* The sequenceIndex of the catalogue frame written at the recovered
\* timestamp t.
SequenceIndex(t) == MapGet(info.frames, t).index

\* Along the output the frames of the catalogue come with strictly
\* increasing sequenceIndex.
SourceOrderKept ==
    LET recs == OutRecs
    IN \A a, b \in 1..Len(recs) :
          a < b /\ recs[a].pts \in Recovered /\ recs[b].pts \in Recovered =>
             SequenceIndex(recs[a].pts) < SequenceIndex(recs[b].pts)

\* C33: the resolved timestamps are strictly increasing in the order of the
\* original container timestamps, so the repaired output holds the
\* surviving original frames in the order of the source, whatever the
\* recognition and the interpolation gave.
C33_SourceOrder ==
    /\ Reconciled => ResolvedIncreasing
    /\ Repaired => SourceOrderKept

\* The records of the source come in the order of their timestamps.
SourceInPtsOrder ==
    \A j, k \in 1..Len(src.recs) : j < k => src.recs[j].pts <= src.recs[k].pts

\* As built: the output keeps the order of the source when the source is in
\* the order of its timestamps and the resolved timestamps happen to be
\* increasing.
SourceOrderWhenIncreasing ==
    Repaired /\ SourceInPtsOrder /\ ResolvedIncreasing => SourceOrderKept

\* Two frames at the timestamps 0 and 1, in this order in the source, were
\* recognized as 3 and 1: the
\* output starts with the second frame and ends with the first.
C33_Reordered ==
    /\ Repaired
    /\ SourceInPtsOrder
    /\ DOMAIN resolved = {0, 1}
    /\ resolved[0] = 3
    /\ resolved[1] = 1
    /\ Len(OutRecs) = 3
    /\ OutRecs[1].pts = 1
    /\ SequenceIndex(1) = 1
    /\ OutRecs[3].pts = 3
    /\ SequenceIndex(3) = 0

\* The repairs that registered under the display name `name` in the
\* degraded registry (deg) or in the reference registry: their places in
\* the scan.
Registered(name, deg) ==
    {i \in 1..Len(RepairCalls) :
        /\ RepairCalls[i].ok
        /\ RepairCalls[i].name = name
        /\ IsDegradedPath(RepairCalls[i].other) = deg}

\* The repair that registered the reference the second loop is at: the last
\* one to set the entry of the name.
ReferenceRegistrar == RepairCalls[MaxOf(Registered(CurrentName, FALSE))]

\* The repair that pushed the degraded path the second loop is at.
DegradedRegistrar == RepairCalls[SortAsc(Registered(CurrentName, TRUE))[degIdx]]

\* The file at the output path of the repair `made` is the complete
\* container that repair wrote.
WrittenBy(made) ==
    /\ OnDisk(disk, made.other)
    /\ disk[made.other].complete
    /\ disk[made.other].by = made.path

\* C34: whenever the scoring of a pair starts, the file at the reference
\* path and the file at the degraded path are the complete repaired
\* containers written by the repairs that registered them: no later repair
\* with the same output path, failed or returned, has replaced them.
C34_RegisteredFilesIntact ==
    opc = "ffmpeg" =>
        /\ ReferenceRegistrar.other = scoring.referencePath
        /\ DegradedRegistrar.other = scoring.degradedPath
        /\ WrittenBy(ReferenceRegistrar)
        /\ WrittenBy(DegradedRegistrar)

\* The last repair that opened the output path p.
LastOpened(p) ==
    RepairCalls[MaxOf({i \in 1..Len(RepairCalls) : RepairCalls[i].other = p})]

\* As built: the file at a scored path is what the last repair that opened
\* the path left there, complete if that repair returned and without header
\* if it threw in the write loop.
ScoredAsLastLeft ==
    opc = "ffmpeg" =>
        \A p \in {scoring.referencePath, scoring.degradedPath} :
            /\ OnDisk(disk, p)
            /\ disk[p].by = LastOpened(p).path
            /\ disk[p].complete = LastOpened(p).ok

\* The scoring of a pair has started on a reference that a later repair of
\* a capture of the same name opened and left without header.
C34_HeaderlessScored ==
    /\ opc = "ffmpeg"
    /\ ReferenceRegistrar.other = scoring.referencePath
    /\ ~disk[scoring.referencePath].complete
    /\ disk[scoring.referencePath].by # ReferenceRegistrar.path

\* The scoring has started on a degraded path that two repairs registered,
\* for the entry of the first one: the file is the output of the second.
C34_OverwrittenScored ==
    /\ opc = "ffmpeg"
    /\ degIdx = 1
    /\ disk[scoring.degradedPath].complete
    /\ disk[scoring.degradedPath].by # DegradedRegistrar.path

\* The step is a fixIvfFrames call that returned.
RepairReturned ==
    /\ Len(log') = Len(log) + 1
    /\ log'[Len(log')].op = "fixIvfFrames"
    /\ log'[Len(log')].ok

\* The step registers the output of the repair it made by the role the
\* repair named it for: as reference if the capture is a send-side one, as
\* degraded if not.
RegisteredAsNamed ==
    LET made == log'[Len(log')]
    IN IF SendSide(made.path)
       THEN /\ reference' = RegisterReference(reference, made.name, made.other)
            /\ degraded' = degraded
       ELSE /\ degraded' = RegisterDegraded(degraded, made.name, made.other)
            /\ reference' = reference

\* C35: the orchestrator registers a repaired stream as reference exactly
\* when the repair named it as a reference (the leading token of the source
\* ends in -send) and as degraded exactly when the repair named it with the
\* receiver marker, whatever the root directory and the display name are.
C35_RegisteredAsNamed == [][RepairReturned => RegisteredAsNamed]_vars

\* As built: the same under a root directory whose path does not hold the
\* text recv-by.
RegisteredAsNamedPlainRoot ==
    [][RepairReturned /\ ~Includes(config.vmafPath, RecvBy) => RegisteredAsNamed]_vars

\* Under the root directory recv-by a send-side and a receive-side capture
\* of Alice were repaired; both outputs stand in the degraded registry, no
\* pair was scored and the report is empty.
C35_NothingScored ==
    /\ opc = "ended"
    /\ config.vmafPath = RecvBy
    /\ Returned(Alice, TRUE) # {}
    /\ Returned(Alice, FALSE) # {}
    /\ reference = <<>>
    /\ Len(MapGet(degraded, Alice)) = 2
    /\ Calls("runVmaf") = <<>>
    /\ written = <<<<>>>>

\* parseIvf has returned or thrown, or fixIvfFrames has.
CallOver == pc \in {"check", "failed", "done", "fixed"}

\* C36: every file handle and recognition worker that parse and repair
\* opened is released by the time the call returns or fails: the source
\* handle on "Invalid IVF file", the source and output handles on "too many
\* frames missing", the clock pool and the identity worker after recovery.
C36_AllReleased == CallOver => handles = {}

\* As built: a parseIvf that returned has closed its file handle and
\* terminated the clock pool, and a fixIvfFrames that returned has closed
\* its two handles; the identity worker is left running, and a call that
\* throws leaves the handles it had opened.
ReleasedOnReturn ==
    /\ pc \in {"check", "repair", "done", "fixed"} =>
         ParseFd \notin handles /\ ClockPool \notin handles
    /\ pc \in {"check", "fixed"} => handles = {NameWorker}
    /\ pc = "done" => handles = IF call = "fixIvfFrames" THEN {NameWorker} ELSE {}
    /\ error = "Invalid IVF file" => ParseFd \in handles
    /\ error \in {"no participant name found", "no frames found"} =>
         handles = {NameWorker}
    /\ error = "too many frames missing" =>
         handles = {NameWorker, SourceFd, FixedFd}

\* parseIvf threw on a short header with its file handle open.
C36_SourceHandleLeft ==
    /\ call = "parseIvf"
    /\ pc = "failed"
    /\ error = "Invalid IVF file"
    /\ handles = {ParseFd}

\* fixIvfFrames threw in the write loop with both of its handles open.
C36_RepairHandlesLeft ==
    /\ pc = "failed"
    /\ error = "too many frames missing"
    /\ SourceFd \in handles
    /\ FixedFd \in handles

\* fixIvfFrames returned and the identity worker is still there.
C36_WorkerLeft ==
    /\ pc = "fixed"
    /\ ret # NoRet
    /\ handles = {NameWorker}

=============================================================================
